---- MODULE Spec2Model ----
(***************************************************************************)
(* A model of mcdata-rs: the data source (get_data_root), the version      *)
(* registry (load_and_index_versions, resolve_version), the Version        *)
(* ordering, the process-wide snapshot cache (mc_data) and the feature     *)
(* lookup (support_feature), the last three as steps of concurrent threads.*)
(*                                                                         *)
(* Strings are sequences of tokens, so that strip_prefix, split('.'),      *)
(* contains('.') and parse::<i32>() act on them as they act in the code:   *)
(* "pc_1.18.1" is <<"pc_", "1", ".", "18", ".", "1">>.                      *)
(***************************************************************************)
EXTENDS Integers, Sequences, FiniteSets, TLC

\* ------------------------------------------------------------------ bounds

\* The longest raw version list (protocolVersions.json) of the PC edition.
MaxLen == 2

\* The number of threads that call into the library.
NumThreads == 2

\* The failures of the file system, the network and the parsers in one run.
MaxFaults == 1

\* ----------------------------------------------------------- option, result

None == [some |-> FALSE]

Some(x) == [some |-> TRUE, val |-> x]

Ok(x) == [ok |-> TRUE, val |-> x]

\* An McDataError: its kind (the enum variant) and its payload.
Err(kind, arg) == [ok |-> FALSE, kind |-> kind, arg |-> arg]

\* ----------------------------------------------------------------- strings

PC_PREFIX == "pc_"

BEDROCK_PREFIX == "bedrock_"

DOT == "."

\* The numeral tokens with their values: str::parse::<i32>() of a token.
NumeralValue ==
    [t \in {"1", "5", "6", "18", "19"} |->
        CASE t = "1" -> 1 [] t = "5" -> 5 [] t = "6" -> 6
          [] t = "18" -> 18 [] t = "19" -> 19]

\* str::parse::<i32>(): Some(n) for a string that is one numeral, else None.
ParseI32(s) ==
    IF Len(s) = 1 /\ s[1] \in DOMAIN NumeralValue
    THEN Some(NumeralValue[s[1]])
    ELSE None

\* str::strip_prefix(p): the string without its leading p, when it starts with p.
StripPrefix(s, p) ==
    IF Len(s) >= 1 /\ s[1] = p THEN Some(Tail(s)) ELSE None

\* ----------------------------------------------------------------- Edition

Pc == "Pc"

Bedrock == "Bedrock"

Editions == {Pc, Bedrock}

path_prefix(edition) == IF edition = Pc THEN "pc" ELSE "bedrock"

\* ----------------------------------------------------------------- Version

\* Ordering values of std::cmp::Ordering.
Less == "Less"

Equal == "Equal"

Greater == "Greater"

\* i32::partial_cmp / i32::cmp.
cmp_i32(a, b) == IF a < b THEN Less ELSE IF a > b THEN Greater ELSE Equal

\* impl PartialOrd for Version: None across editions, else by data_version.
partial_cmp(self, other) ==
    IF self.edition # other.edition
    THEN None
    ELSE Some(cmp_i32(self.data_version, other.data_version))

\* impl Ord for Version: partial_cmp(..).unwrap_or_else(|| Equal).
cmp(self, other) ==
    LET p == partial_cmp(self, other)
    IN  IF p.some THEN p.val ELSE Equal

\* a < b taken for a <= b.
lt_OrEqual(a, b) == partial_cmp(a, b) \in {Some(Less), Some(Equal)}

\* The operators Rust derives from PartialOrd: a < b, a <= b, a >= b.
lt(a, b) == partial_cmp(a, b) = Some(Less)

\* a <= b taken for a < b.
le_Strict(a, b) == partial_cmp(a, b) = Some(Less)

le(a, b) == partial_cmp(a, b) \in {Some(Less), Some(Equal)}

ge(a, b) == partial_cmp(a, b) \in {Some(Greater), Some(Equal)}

\* ------------------------------------------------------ the version registry

RELEASE == "release"

\* Vec::sort_by(|a, b| b.version.cmp(&a.version)): a stable sort, protocol
\* version descending. Insertion from the left keeps equal elements in order.
RECURSIVE InsertByProtocolDesc(_, _)
InsertByProtocolDesc(sorted, x) ==
    IF sorted = <<>> THEN <<x>>
    ELSE IF Head(sorted).version >= x.version
         THEN <<Head(sorted)>> \o InsertByProtocolDesc(Tail(sorted), x)
         ELSE <<x>> \o sorted

RECURSIVE SortByProtocolDesc(_)
SortByProtocolDesc(raw) ==
    IF raw = <<>> THEN <<>>
    ELSE InsertByProtocolDesc(SortByProtocolDesc(SubSeq(raw, 1, Len(raw) - 1)),
                              raw[Len(raw)])

\* A synthetic data_version that counts upwards: i as i32.
SyntheticDataVersion_Ascending(i) == i

\* The synthetic data_version of the entry at 0-based index i: -(i as i32).
SyntheticDataVersion(i) == -i

\* for (i, v) in raw_versions.iter_mut().enumerate(): fill a missing data_version.
AssignDataVersions(sorted) ==
    [i \in 1..Len(sorted) |->
        IF sorted[i].data_version.some
        THEN sorted[i]
        ELSE [sorted[i] EXCEPT !.data_version = Some(SyntheticDataVersion(i - 1))]]

\* let v = Version { .. } of one raw entry.
MakeVersion(raw, edition) ==
    [minecraft_version |-> raw.minecraft_version,
     major_version |-> raw.major_version,
     version |-> raw.version,
     data_version |-> raw.data_version.val,
     edition |-> edition,
     release_type |-> raw.release_type]

\* HashMap::insert / HashMap::get on a map kept as a function.
MapInsert(m, k, v) == [x \in DOMAIN m \cup {k} |-> IF x = k THEN v ELSE m[x]]

EmptyMap == [x \in {} |-> x]

\* An and_modify that takes every newer candidate, whatever the release
\* types.
ShouldReplaceMajor_AnyNewer(v, existing) ==
    v.data_version > existing.data_version

\* The and_modify condition of the major-version key.
ShouldReplaceMajor(v, existing) ==
    \/ (v.data_version > existing.data_version /\ v.release_type = RELEASE)
    \/ (v.data_version > existing.data_version /\ existing.release_type # RELEASE)

\* One pass of the indexing loop: the three maps after the entry v.
IndexOne(acc, v) ==
    LET m1 == MapInsert(acc.by_minecraft_version, v.minecraft_version, v)
        m2 == IF v.major_version \in DOMAIN m1
              THEN IF ShouldReplaceMajor(v, m1[v.major_version])
                   THEN MapInsert(m1, v.major_version, v)
                   ELSE m1
              ELSE MapInsert(m1, v.major_version, v)
        mj == IF v.major_version \in DOMAIN acc.by_major_version
              THEN Append(acc.by_major_version[v.major_version], v)
              ELSE <<v>>
        pr == IF v.version \in DOMAIN acc.by_protocol_version
              THEN Append(acc.by_protocol_version[v.version], v)
              ELSE <<v>>
    IN  [by_minecraft_version |-> m2,
         by_major_version |-> MapInsert(acc.by_major_version, v.major_version, mj),
         by_protocol_version |-> MapInsert(acc.by_protocol_version, v.version, pr)]

RECURSIVE IndexAll(_, _, _)
IndexAll(acc, raws, edition) ==
    IF raws = <<>> THEN acc
    ELSE IndexAll(IndexOne(acc, MakeVersion(Head(raws), edition)), Tail(raws), edition)

\* The permutations of 1..n.
Permutations1(n) == {p \in [1..n -> 1..n] : \A i, j \in 1..n : p[i] = p[j] => i = j}

\* Vec::sort_unstable_by(|a, b| b.cmp(a)): every order of the same elements
\* that is descending by cmp; the order among elements that compare Equal is
\* not specified.
SortUnstableDesc(s) ==
    {[i \in 1..Len(s) |-> s[p[i]]] : p \in
        {q \in Permutations1(Len(s)) :
            \A i \in 1..(Len(s) - 1) : cmp(s[q[i + 1]], s[q[i]]) # Greater}}

\* The maps a HashMap<K, Vec<Version>> can hold after every vector is sorted.
SortedMaps(m) ==
    {f \in [DOMAIN m -> UNION {SortUnstableDesc(m[k]) : k \in DOMAIN m}] :
        \A k \in DOMAIN m : f[k] \in SortUnstableDesc(m[k])}

\* load_and_index_versions, after the file is read: the VersionData values it
\* can return for a raw list.
load_and_index_versions(raw, edition) ==
    LET sorted == AssignDataVersions(SortByProtocolDesc(raw))
        acc == IndexAll([by_minecraft_version |-> EmptyMap,
                         by_major_version |-> EmptyMap,
                         by_protocol_version |-> EmptyMap], sorted, edition)
    IN  {[by_minecraft_version |-> acc.by_minecraft_version,
          by_major_version |-> bm,
          by_protocol_version |-> bp] :
            bm \in SortedMaps(acc.by_major_version),
            bp \in SortedMaps(acc.by_protocol_version)}

\* ---------------------------------------------------------------- resolution

\* parse_version_string with the unprefixed default taken for Bedrock.
parse_version_string_DefaultBedrock(version_str) ==
    LET pc == StripPrefix(version_str, PC_PREFIX)
        be == StripPrefix(version_str, BEDROCK_PREFIX)
    IN  IF pc.some THEN [edition |-> Pc, version_part |-> pc.val]
        ELSE IF be.some THEN [edition |-> Bedrock, version_part |-> be.val]
        ELSE [edition |-> Bedrock, version_part |-> version_str]

\* parse_version_string that sees the "pc_" prefix but does not strip it.
parse_version_string_KeepPrefix(version_str) ==
    LET pc == StripPrefix(version_str, PC_PREFIX)
        be == StripPrefix(version_str, BEDROCK_PREFIX)
    IN  IF pc.some THEN [edition |-> Pc, version_part |-> version_str]
        ELSE IF be.some THEN [edition |-> Bedrock, version_part |-> be.val]
        ELSE [edition |-> Pc, version_part |-> version_str]

\* parse_version_string: the edition and the version part.
parse_version_string(version_str) ==
    LET pc == StripPrefix(version_str, PC_PREFIX)
        be == StripPrefix(version_str, BEDROCK_PREFIX)
    IN  IF pc.some THEN [edition |-> Pc, version_part |-> pc.val]
        ELSE IF be.some THEN [edition |-> Bedrock, version_part |-> be.val]
        ELSE [edition |-> Pc, version_part |-> version_str]

\* versions.iter().find(|v| v.release_type == "release").or_else(|| versions.first())
RECURSIVE FindRelease(_)
FindRelease(versions) ==
    IF versions = <<>> THEN None
    ELSE IF Head(versions).release_type = RELEASE THEN Some(Head(versions))
    ELSE FindRelease(Tail(versions))

\* The first entry of the list, release or not.
BestProtocolMatch_First(versions) ==
    IF versions # <<>> THEN Some(versions[1]) ELSE None

BestProtocolMatch(versions) ==
    LET r == FindRelease(versions)
    IN  IF r.some THEN r
        ELSE IF versions # <<>> THEN Some(versions[1]) ELSE None

\* resolve_version whose InvalidVersion carries the version part, the edition
\* prefix stripped, in place of the string the caller passed.
ResolveIn_PartInError(version_data, version_str, version_part) ==
    LET direct == IF version_part \in DOMAIN version_data.by_minecraft_version
                  THEN Some(version_data.by_minecraft_version[version_part])
                  ELSE None
        num == ParseI32(version_part)
        proto == IF num.some /\ num.val \in DOMAIN version_data.by_protocol_version
                 THEN BestProtocolMatch(version_data.by_protocol_version[num.val])
                 ELSE None
        major == IF version_part \in DOMAIN version_data.by_major_version
                    /\ version_data.by_major_version[version_part] # <<>>
                 THEN Some(version_data.by_major_version[version_part][1])
                 ELSE None
    IN  IF direct.some /\ (direct.val.minecraft_version = version_part
                           \/ direct.val.major_version = version_part)
        THEN Ok(direct.val)
        ELSE IF proto.some THEN Ok(proto.val)
        ELSE IF major.some THEN Ok(major.val)
        ELSE Err("InvalidVersion", version_part)

\* resolve_version once get_version_data(edition) has returned version_data.
ResolveIn(version_data, version_str, version_part) ==
    LET direct == IF version_part \in DOMAIN version_data.by_minecraft_version
                  THEN Some(version_data.by_minecraft_version[version_part])
                  ELSE None
        num == ParseI32(version_part)
        proto == IF num.some /\ num.val \in DOMAIN version_data.by_protocol_version
                 THEN BestProtocolMatch(version_data.by_protocol_version[num.val])
                 ELSE None
        major == IF version_part \in DOMAIN version_data.by_major_version
                    /\ version_data.by_major_version[version_part] # <<>>
                 THEN Some(version_data.by_major_version[version_part][1])
                 ELSE None
    IN  IF direct.some /\ (direct.val.minecraft_version = version_part
                           \/ direct.val.major_version = version_part)
        THEN Ok(direct.val)
        ELSE IF proto.some THEN Ok(proto.val)
        ELSE IF major.some THEN Ok(major.val)
        ELSE Err("InvalidVersion", version_str)

\* get_version_data: the registry of an edition out of the initialized
\* LOADED_VERSIONS map; a memoized failure comes back as Internal.
get_version_data(cell, edition) ==
    IF cell[edition].ok
    THEN Ok(cell[edition].val)
    ELSE Err("Internal", cell[edition].kind)

\* resolve_version, given the initialized LOADED_VERSIONS map.
resolve_version(cell, version_str) ==
    LET parsed == parse_version_string(version_str)
        version_data == get_version_data(cell, parsed.edition)
    IN  IF version_data.ok
        THEN ResolveIn(version_data.val, version_str, parsed.version_part)
        ELSE version_data

\* IndexedData::is_newer_or_equal_to of a snapshot whose version is self.
is_newer_or_equal_to(cell, self, other_version_str) ==
    LET other_version == resolve_version(cell, other_version_str)
    IN  IF ~other_version.ok THEN other_version
        ELSE IF self.edition = other_version.val.edition
             THEN Ok(ge(self, other_version.val))
             ELSE Err("Internal", "different editions")

\* IndexedData::is_older_than of a snapshot whose version is self.
is_older_than(cell, self, other_version_str) ==
    LET other_version == resolve_version(cell, other_version_str)
    IN  IF ~other_version.ok THEN other_version
        ELSE IF self.edition = other_version.val.edition
             THEN Ok(lt(self, other_version.val))
             ELSE Err("Internal", "different editions")

\* ------------------------------------------------------------ input universes

V118 == <<"1", DOT, "18">>

V1181 == <<"1", DOT, "18", DOT, "1">>

V119 == <<"1", DOT, "19">>

Snap22w == <<"22w19a">>

\* (minecraftVersion, majorVersion, releaseType) of raw entries.
RawNames ==
    {<<V118, V118, RELEASE>>, <<V1181, V118, RELEASE>>,
     <<V1181, V118, "snapshot">>, <<Snap22w, V119, "snapshot">>}

Protocols == {5, 6}

RawDataVersions == {None, Some(1), Some(2)}

\* The entries a protocolVersions.json of the PC edition is made of.
RawEntries ==
    {[minecraft_version |-> n[1], major_version |-> n[2], version |-> p,
      data_version |-> d, release_type |-> n[3]] :
        n \in RawNames, p \in Protocols, d \in RawDataVersions}

RawListsPc == UNION {[1..n -> RawEntries] : n \in 0..MaxLen}

\* The protocolVersions.json files of the Bedrock edition.
RawListsBedrock ==
    {<<[minecraft_version |-> V118, major_version |-> V118, version |-> 5,
        data_version |-> d, release_type |-> RELEASE]>> : d \in {None, Some(2)}}

VersionParts == {V118, V1181, V119, Snap22w, <<"5">>, <<"6">>, <<"zz">>}

\* The strings callers pass: a version part, bare or behind an edition prefix.
VersionStrings ==
    VersionParts \cup {<<PC_PREFIX>> \o s : s \in VersionParts}
                 \cup {<<BEDROCK_PREFIX>> \o s : s \in {V118, <<"5">>, <<"zz">>}}

\* The strings the comparison methods are given.
CompareStrings ==
    {V118, V1181, <<"5">>, <<"zz">>, <<PC_PREFIX>> \o V118,
     <<PC_PREFIX>> \o V1181, <<BEDROCK_PREFIX>> \o V118}

\* ---------------------------------------------------------------------- state

VARIABLES
    rawVersions,     \* edition -> the entries of its protocolVersions.json
    loadedVersions,  \* LOADED_VERSIONS: None, or Some(edition -> Result<VersionData>)
    last,            \* the last single-threaded operation, its inputs and result
    pc,              \* thread -> where it is in its call
    call,            \* thread -> the public call it makes
    stack,           \* thread -> the places its nested calls return to
    loc,             \* thread -> its local variables
    ret,             \* thread -> None, or Some(result of its call)
    raised,          \* thread -> the kinds of the errors its call is to return
    dataPath,        \* DATA_PATH: the OnceCell<PathBuf> and who initializes it
    downloadLock,    \* DOWNLOAD_LOCK: 0, or the thread that holds it
    disk,            \* the files under <cacheDir>/mcdata-rs/minecraft-data/data
    versionsInit,    \* 0, or the thread inside LOADED_VERSIONS.get_or_init
    dataPaths,       \* LOADED_DATA_PATHS: the OnceCell and who initializes it
    dataCache,       \* DATA_CACHE: the map and the holders of its RwLock
    features,        \* LOADED_FEATURES: the OnceCell and who initializes it
    resolvedCache,   \* RESOLVED_VERSION_CACHE: the map and the holders of its RwLock
    downloadsStarted, \* calls of download_and_extract so far
    downloadsFailed,  \* fetches that ended in an error so far
    faultsLeft        \* the failures the environment may still produce

single == <<rawVersions, last>>

threadVars == <<pc, call, stack, loc, ret, raised>>

rootVars == <<dataPath, downloadLock, disk, downloadsStarted, downloadsFailed>>

sharedVars == <<loadedVersions, versionsInit, dataPaths, dataCache>>

featVars == <<features, resolvedCache>>

vars == <<rawVersions, loadedVersions, last, pc, call, stack, loc, ret, raised,
          dataPath, downloadLock, disk, versionsInit, dataPaths, dataCache,
          features, resolvedCache, downloadsStarted, downloadsFailed,
          faultsLeft>>

Threads == 1..NumThreads

\* The locals of a thread that has not called yet.
NoLocals == [root |-> None, edition |-> Pc, map |-> EmptyMap, archive |-> <<>>,
             i |-> 0, version |-> None, key |-> <<>>, k |-> 0, arc |-> None,
             range |-> <<>>, bounds |-> <<>>]

\* The threads have not called, the cells are empty and no lock is held.
ProcessStart ==
    /\ pc = [t \in Threads |-> "idle"]
    /\ call = [t \in Threads |-> [op |-> "none"]]
    /\ stack = [t \in Threads |-> <<>>]
    /\ loc = [t \in Threads |-> NoLocals]
    /\ ret = [t \in Threads |-> None]
    /\ raised = [t \in Threads |-> {}]
    /\ dataPath = [val |-> None, init |-> 0]
    /\ downloadLock = 0
    /\ versionsInit = 0
    /\ dataPaths = [val |-> None, init |-> 0]
    /\ dataCache = [map |-> EmptyMap, readers |-> {}, writer |-> 0]
    /\ features = [val |-> None, init |-> 0]
    /\ resolvedCache = [map |-> EmptyMap, readers |-> {}, writer |-> 0]
    /\ downloadsStarted = 0
    /\ downloadsFailed = 0

NoCall == [op |-> "none"]

\* Every Version held by the registries of an initialized LOADED_VERSIONS.
RegistryVersions(cell) ==
    UNION {IF cell[e].ok
           THEN {cell[e].val.by_minecraft_version[k] :
                    k \in DOMAIN cell[e].val.by_minecraft_version}
                \cup UNION {{cell[e].val.by_major_version[k][i] :
                                i \in 1..Len(cell[e].val.by_major_version[k])} :
                            k \in DOMAIN cell[e].val.by_major_version}
           ELSE {} : e \in Editions}

\* The versions a snapshot can have: what resolve_version returns to mc_data.
SnapshotVersions(cell) ==
    {resolve_version(cell, s).val :
        s \in {x \in VersionStrings : resolve_version(cell, x).ok}}

\* --------------------------------------------- the registry, single-threaded

InitVersion ==
    /\ rawVersions \in {[e \in Editions |-> IF e = Pc THEN p ELSE b] :
                            p \in RawListsPc, b \in RawListsBedrock}
    /\ loadedVersions = None
    /\ last = NoCall
    /\ ProcessStart
    /\ disk = {}
    /\ faultsLeft = 0

\* get_version_data's initializer when every read succeeds: both editions are
\* loaded and indexed, and the map is stored in LOADED_VERSIONS.
LoadVersions ==
    /\ ~loadedVersions.some
    /\ \E rp \in load_and_index_versions(rawVersions[Pc], Pc),
          rb \in load_and_index_versions(rawVersions[Bedrock], Bedrock) :
            loadedVersions' = Some([e \in Editions |->
                                      IF e = Pc THEN Ok(rp) ELSE Ok(rb)])
    /\ UNCHANGED <<rawVersions, last, faultsLeft, featVars, threadVars, rootVars, versionsInit,
                   dataPaths, dataCache>>

CallResolveVersion(s) ==
    /\ loadedVersions.some
    /\ last = NoCall
    /\ last' = [op |-> "resolve_version", arg |-> s,
                result |-> resolve_version(loadedVersions.val, s)]
    /\ UNCHANGED <<rawVersions, faultsLeft, featVars, threadVars, rootVars, sharedVars>>

\* resolve_version(first.minecraft_version) for the Version a call returned.
CallResolveAgain ==
    /\ last.op = "resolve_version"
    /\ last.result.ok
    /\ last' = [op |-> "resolve_again", arg |-> last.arg,
                first |-> last.result.val,
                result |-> resolve_version(loadedVersions.val,
                                           last.result.val.minecraft_version)]
    /\ UNCHANGED <<rawVersions, faultsLeft, featVars, threadVars, rootVars, sharedVars>>

\* a.partial_cmp(&b) and a.cmp(&b) of two Versions of the registries.
CallCmp(a, b) ==
    /\ loadedVersions.some
    /\ last = NoCall
    /\ last' = [op |-> "cmp", a |-> a, b |-> b,
                partial |-> partial_cmp(a, b), total |-> cmp(a, b)]
    /\ UNCHANGED <<rawVersions, faultsLeft, featVars, threadVars, rootVars, sharedVars>>

CallIsOlderThan(v, s) ==
    /\ loadedVersions.some
    /\ last = NoCall
    /\ last' = [op |-> "is_older_than", self |-> v, arg |-> s,
                result |-> is_older_than(loadedVersions.val, v, s)]
    /\ UNCHANGED <<rawVersions, faultsLeft, featVars, threadVars, rootVars, sharedVars>>

CallIsNewerOrEqualTo(v, s) ==
    /\ loadedVersions.some
    /\ last = NoCall
    /\ last' = [op |-> "is_newer_or_equal_to", self |-> v, arg |-> s,
                result |-> is_newer_or_equal_to(loadedVersions.val, v, s)]
    /\ UNCHANGED <<rawVersions, faultsLeft, featVars, threadVars, rootVars, sharedVars>>

NextVersion ==
    \/ LoadVersions
    \/ \E s \in VersionStrings : CallResolveVersion(s)
    \/ CallResolveAgain

SpecVersion == InitVersion /\ [][NextVersion]_vars

\* ------------------------------------------- the comparisons, single-threaded

\* The raw lists the comparison operations are run on.
RawListsCompare ==
    UNION {[1..n -> {x \in RawEntries : x.release_type = RELEASE}] :
            n \in 0..MaxLen}

InitCompare ==
    /\ rawVersions \in {[e \in Editions |-> IF e = Pc THEN p ELSE b] :
                            p \in RawListsCompare, b \in RawListsBedrock}
    /\ loadedVersions = None
    /\ last = NoCall
    /\ ProcessStart
    /\ disk = {}
    /\ faultsLeft = 0

NextCompare ==
    \/ LoadVersions
    \/ /\ loadedVersions.some
       /\ last = NoCall
       /\ \E a, b \in RegistryVersions(loadedVersions.val) : CallCmp(a, b)
    \/ /\ loadedVersions.some
       /\ last = NoCall
       /\ \E v \in SnapshotVersions(loadedVersions.val), s \in CompareStrings :
            \/ CallIsOlderThan(v, s)
            \/ CallIsNewerOrEqualTo(v, s)

SpecCompare == InitCompare /\ [][NextCompare]_vars

\* ------------------------------------- supported_versions, single-threaded

\* str::contains('.')
Contains(s, token) == \E i \in 1..Len(s) : s[i] = token

\* str::split('.'): the parts between the dots.
RECURSIVE SplitDot(_)
SplitDot(s) ==
    IF ~Contains(s, DOT) THEN <<s>>
    ELSE LET i == CHOOSE j \in 1..Len(s) :
                    s[j] = DOT /\ \A k \in 1..(j - 1) : s[k] # DOT
         IN  <<SubSeq(s, 1, i - 1)>> \o SplitDot(SubSeq(s, i + 1, Len(s)))

\* |s| s.parse::<u32>().ok() of one part.
ParseU32(s) ==
    IF Len(s) = 1 /\ s[1] \in DOMAIN NumeralValue
    THEN Some(NumeralValue[s[1]])
    ELSE None

\* parts.get(i).cloned().flatten().unwrap_or(0), i counted from 1.
PartValue(parts, i) ==
    IF i <= Len(parts) /\ ParseU32(parts[i]).some
    THEN ParseU32(parts[i]).val
    ELSE 0

\* The loop of the comparator from part i on.
RECURSIVE ComparePartsFrom(_, _, _)
ComparePartsFrom(parts_a, parts_b, i) ==
    IF i > Len(parts_a) /\ i > Len(parts_b) THEN Equal
    ELSE IF PartValue(parts_a, i) < PartValue(parts_b, i) THEN Less
    ELSE IF PartValue(parts_a, i) > PartValue(parts_b, i) THEN Greater
    ELSE ComparePartsFrom(parts_a, parts_b, i + 1)

\* The closure given to versions.sort_by.
CompareVersionStrings(a, b) == ComparePartsFrom(SplitDot(a), SplitDot(b), 1)

\* get_supported_versions on a loaded registry: the minecraft_version of the
\* values of by_minecraft_version that contain a dot, collected in the order
\* of the HashMap, which is any order, and sorted by a stable sort.
get_supported_versions(version_data) ==
    LET m == version_data.by_minecraft_version
        keys == {k \in DOMAIN m : Contains(m[k].minecraft_version, DOT)}
        n == Cardinality(keys)
    IN  {[i \in 1..n |-> m[f[i]].minecraft_version] :
            f \in {g \in [1..n -> keys] :
                    /\ \A i, j \in 1..n : g[i] = g[j] => i = j
                    /\ \A i \in 1..(n - 1) :
                         CompareVersionStrings(m[g[i]].minecraft_version,
                                               m[g[i + 1]].minecraft_version)
                            # Greater}}

\* supported_versions(edition)
CallSupportedVersions(edition) ==
    /\ loadedVersions.some
    /\ last = NoCall
    /\ \E r \in get_supported_versions(loadedVersions.val[edition].val) :
            last' = [op |-> "supported_versions", edition |-> edition,
                     result |-> Ok(r)]
    /\ UNCHANGED <<rawVersions, faultsLeft, featVars, threadVars, rootVars, sharedVars>>

VPre == <<"1", DOT, "18", DOT, "2-pre1">>

\* The entries of the lists supported_versions is run on: two releases, a
\* pre-release with a dot in its name and a snapshot without one.
SupportedRawEntries ==
    {[minecraft_version |-> n[1], major_version |-> n[2], version |-> p,
      data_version |-> d, release_type |-> n[3]] :
        n \in {<<V118, V118, RELEASE>>, <<V1181, V118, RELEASE>>,
               <<VPre, V118, "snapshot">>, <<Snap22w, V119, "snapshot">>},
        p \in Protocols, d \in RawDataVersions}

InitSupported ==
    /\ rawVersions \in {[e \in Editions |-> IF e = Pc THEN p ELSE b] :
                            p \in UNION {[1..n -> SupportedRawEntries] : n \in 0..MaxLen},
                            b \in RawListsBedrock}
    /\ loadedVersions = None
    /\ last = NoCall
    /\ ProcessStart
    /\ disk = {}
    /\ faultsLeft = 0

NextSupported ==
    \/ LoadVersions
    \/ \E edition \in Editions : CallSupportedVersions(edition)

SpecSupported == InitSupported /\ [][NextSupported]_vars

\* ---------------------------------------- the feature engine, single-threaded

MAJOR_SUFFIX == "_major"

LATEST == <<"latest">>

\* str::strip_suffix(p): the string without its trailing p, when it ends with p.
StripSuffix(s, p) ==
    IF Len(s) >= 1 /\ s[Len(s)] = p THEN Some(SubSeq(s, 1, Len(s) - 1)) ELSE None

\* resolve_cached_version: the resolution of the string, which must be of the
\* requested edition. The registry never changes, so a hit of
\* RESOLVED_VERSION_CACHE is the Version a resolution returns.
resolve_cached_version(cell, edition, version_str) ==
    LET resolved_result == resolve_version(cell, version_str)
    IN  IF resolved_result.ok /\ resolved_result.val.edition # edition
        THEN Err("Internal", "edition mismatch")
        ELSE resolved_result

\* version_data.by_minecraft_version.values().max(): a value that no other
\* exceeds. Those that qualify have one data_version, the only field the
\* range check reads.
MaxValue(m) ==
    IF DOMAIN m = {} THEN None
    ELSE Some(m[CHOOSE k \in DOMAIN m : \A j \in DOMAIN m : cmp(m[j], m[k]) # Greater])

\* The minimum of a range: "<X>_major" is the last entry of series X, any
\* other string goes through resolve_cached_version.
MinBoundary(cell, edition, min_ver_str) ==
    LET base_major == StripSuffix(min_ver_str, MAJOR_SUFFIX)
        version_data == get_version_data(cell, edition)
    IN  IF base_major.some
        THEN IF ~version_data.ok THEN version_data
             ELSE IF base_major.val \in DOMAIN version_data.val.by_major_version
                     /\ version_data.val.by_major_version[base_major.val] # <<>>
                  THEN LET versions ==
                                version_data.val.by_major_version[base_major.val]
                       IN  Ok(versions[Len(versions)])
                  ELSE Err("InvalidVersion", min_ver_str)
        ELSE resolve_cached_version(cell, edition, min_ver_str)

\* The maximum of a range: "latest" is the newest entry of the edition,
\* "<X>_major" the first entry of series X, any other string goes through
\* resolve_cached_version.
MaxBoundary(cell, edition, max_ver_str) ==
    LET base_major == StripSuffix(max_ver_str, MAJOR_SUFFIX)
        version_data == get_version_data(cell, edition)
    IN  IF max_ver_str = LATEST
        THEN IF ~version_data.ok THEN version_data
             ELSE IF MaxValue(version_data.val.by_minecraft_version).some
                  THEN Ok(MaxValue(version_data.val.by_minecraft_version).val)
                  ELSE Err("Internal", "no latest version")
        ELSE IF base_major.some
        THEN IF ~version_data.ok THEN version_data
             ELSE IF base_major.val \in DOMAIN version_data.val.by_major_version
                     /\ version_data.val.by_major_version[base_major.val] # <<>>
                  THEN Ok(version_data.val.by_major_version[base_major.val][1])
                  ELSE Err("InvalidVersion", max_ver_str)
        ELSE resolve_cached_version(cell, edition, max_ver_str)

\* is_version_in_range: the minimum is resolved first, then the maximum, and
\* target_version >= &min_ver && target_version <= &max_ver.
is_version_in_range(cell, target_version, min_ver_str, max_ver_str) ==
    LET min_ver == MinBoundary(cell, target_version.edition, min_ver_str)
        max_ver == MaxBoundary(cell, target_version.edition, max_ver_str)
    IN  IF ~min_ver.ok THEN min_ver
        ELSE IF ~max_ver.ok THEN max_ver
        ELSE Ok(ge(target_version, min_ver.val) /\ le(target_version, max_ver.val))

CallIsVersionInRange(target_version, min_ver_str, max_ver_str) ==
    /\ loadedVersions.some
    /\ last = NoCall
    /\ last' = [op |-> "is_version_in_range", target |-> target_version,
                min |-> min_ver_str, max |-> max_ver_str,
                result |-> is_version_in_range(loadedVersions.val, target_version,
                                               min_ver_str, max_ver_str)]
    /\ UNCHANGED <<rawVersions, faultsLeft, featVars, threadVars, rootVars, sharedVars>>

\* The entries of the lists the range check is run on.
RangeRawEntries ==
    {[minecraft_version |-> n[1], major_version |-> n[2], version |-> p,
      data_version |-> d, release_type |-> n[3]] :
        n \in {<<V118, V118, RELEASE>>, <<V1181, V118, RELEASE>>,
               <<Snap22w, V119, "snapshot">>},
        p \in Protocols, d \in RawDataVersions}

\* protocolVersions.json names a version once: the lists of entries whose
\* minecraftVersion strings differ.
RangeRawLists ==
    {l \in UNION {[1..n -> RangeRawEntries] : n \in 0..MaxLen} :
        \A i, j \in 1..Len(l) :
            l[i].minecraft_version = l[j].minecraft_version => i = j}

\* The endpoint strings of the ranges.
RangeMins ==
    {V118, V1181, V118 \o <<MAJOR_SUFFIX>>, V119 \o <<MAJOR_SUFFIX>>,
     <<BEDROCK_PREFIX>> \o V118, <<"zz">>}

RangeMaxs ==
    {V118, V1181, LATEST, V118 \o <<MAJOR_SUFFIX>>, <<BEDROCK_PREFIX>> \o V118}

InitRange ==
    /\ rawVersions \in {[e \in Editions |-> IF e = Pc THEN p ELSE b] :
                            p \in RangeRawLists, b \in RawListsBedrock}
    /\ loadedVersions = None
    /\ last = NoCall
    /\ ProcessStart
    /\ disk = {}
    /\ faultsLeft = 0

NextRange ==
    \/ LoadVersions
    \/ /\ loadedVersions.some
       /\ \E target_version \in SnapshotVersions(loadedVersions.val),
             min_ver_str \in RangeMins, max_ver_str \in RangeMaxs :
                CallIsVersionInRange(target_version, min_ver_str, max_ver_str)

SpecRange == InitRange /\ [][NextRange]_vars

\* ------------------------------------------------ the data root, by threads

SENTINEL == "dataPaths.json"

DATA_DIR == "minecraft-data/data"

\* An archive entry: its name below the data/ folder of the repository,
\* whether enclosed_name() accepts it and whether it lies under that folder.
Entry(name, enclosed, inData) ==
    [name |-> name, enclosed |-> enclosed, inData |-> inData]

\* The archive of the repository, in the order of its entries, and one that
\* carries no dataPaths.json.
GoodArchive ==
    <<Entry("README.md", TRUE, FALSE), Entry("bedrock", TRUE, TRUE),
      Entry(SENTINEL, TRUE, TRUE), Entry("pc", TRUE, TRUE)>>

BadArchive == <<Entry("../x", FALSE, FALSE), Entry("pc", TRUE, TRUE)>>

Archives == {GoodArchive, BadArchive}

FullDisk == {"bedrock", SENTINEL, "pc"}

\* The places of download_and_extract.
DownloadLabels == {"dl_request", "dl_open", "dl_purge", "dl_extract"}

\* The places of get_data_root's initializer, DOWNLOAD_LOCK held.
InitializerLabels ==
    {"gdr_check", "gdr_mkdir", "gdr_verify"} \cup DownloadLabels

\* A step of the file system, the network or a parser fails, or does not.
Fault ==
    /\ faultsLeft > 0
    /\ faultsLeft' = faultsLeft - 1

NoFault == UNCHANGED faultsLeft

\* The nested call returns to the place on top of the stack.
Return(t) ==
    /\ pc' = [pc EXCEPT ![t] = Head(stack[t])]
    /\ stack' = [stack EXCEPT ![t] = Tail(stack[t])]

\* Enter a nested call that returns to `back`.
Enter(t, entry, back) ==
    /\ pc' = [pc EXCEPT ![t] = entry]
    /\ stack' = [stack EXCEPT ![t] = <<back>> \o stack[t]]

Goto(t, label) ==
    /\ pc' = [pc EXCEPT ![t] = label]
    /\ UNCHANGED stack

\* An error of this kind, which the call of t is to return, has arisen.
Raise(t, kind) == raised' = [raised EXCEPT ![t] = @ \cup {kind}]

\* get_data_root with neither the exclusion of get_or_try_init nor the mutex:
\* every caller that finds the cell empty runs the initializer at once.
GdrEnter_Unserialized(t) ==
    /\ pc[t] = "gdr"
    /\ IF dataPath.val.some
         THEN /\ loc' = [loc EXCEPT ![t].root = Ok(dataPath.val.val)]
              /\ Return(t)
         ELSE /\ Goto(t, "gdr_check")
              /\ UNCHANGED loc
    /\ UNCHANGED <<single, faultsLeft, featVars, call, ret, raised, dataPath, downloadLock, disk,
                   downloadsStarted, downloadsFailed, sharedVars>>

\* get_data_root that trusts the cell only while dataPaths.json is on disk:
\* without the file the caller runs the initializer again.
GdrEnter_Recheck(t) ==
    /\ pc[t] = "gdr"
    /\ IF dataPath.val.some /\ SENTINEL \in disk
         THEN /\ loc' = [loc EXCEPT ![t].root = Ok(dataPath.val.val)]
              /\ Return(t)
              /\ UNCHANGED dataPath
         ELSE /\ dataPath.init = 0
              /\ dataPath' = [val |-> None, init |-> t]
              /\ Goto(t, "gdr_lock")
              /\ UNCHANGED loc
    /\ UNCHANGED <<single, faultsLeft, featVars, call, ret, raised, downloadLock, disk,
                   downloadsStarted, downloadsFailed, sharedVars>>

\* get_data_root: DATA_PATH.get_or_try_init. A set cell answers at once, an
\* empty one makes the caller the initializer, and a cell that another thread
\* initializes blocks the caller.
GdrEnter(t) ==
    /\ pc[t] = "gdr"
    /\ IF dataPath.val.some
         THEN /\ loc' = [loc EXCEPT ![t].root = Ok(dataPath.val.val)]
              /\ Return(t)
              /\ UNCHANGED dataPath
         ELSE /\ dataPath.init = 0
              /\ dataPath' = [dataPath EXCEPT !.init = t]
              /\ Goto(t, "gdr_lock")
              /\ UNCHANGED loc
    /\ UNCHANGED <<single, faultsLeft, featVars, call, ret, raised, downloadLock, disk,
                   downloadsStarted, downloadsFailed, sharedVars>>

\* The initializer fails: the guard is dropped, the cell stays empty and the
\* error is the result of get_data_root.
GdrFail(t, kind) ==
    /\ downloadLock' = 0
    /\ dataPath' = [dataPath EXCEPT !.init = 0]
    /\ loc' = [loc EXCEPT ![t].root = Err(kind, ""),
                           ![t].archive = <<>>, ![t].i = 0]
    /\ Return(t)

\* The initializer succeeds: the cell is set, the guard is dropped.
GdrSucceed(t) ==
    /\ downloadLock' = 0
    /\ dataPath' = [val |-> Some(DATA_DIR), init |-> 0]
    /\ loc' = [loc EXCEPT ![t].root = Ok(DATA_DIR),
                           ![t].archive = <<>>, ![t].i = 0]
    /\ Return(t)

\* DOWNLOAD_LOCK.lock(), the re-check of DATA_PATH and dirs_next::cache_dir().
GdrLock(t) ==
    /\ pc[t] = "gdr_lock"
    /\ downloadLock = 0
    /\ IF dataPath.val.some
         THEN /\ loc' = [loc EXCEPT ![t].root = Ok(dataPath.val.val)]
              /\ dataPath' = [dataPath EXCEPT !.init = 0]
              /\ Return(t)
              /\ UNCHANGED downloadLock
              /\ NoFault
         ELSE \/ /\ downloadLock' = t
                 /\ Goto(t, "gdr_check")
                 /\ UNCHANGED <<dataPath, loc>>
                 /\ NoFault
              \/ /\ Fault
                 /\ dataPath' = [dataPath EXCEPT !.init = 0]
                 /\ loc' = [loc EXCEPT ![t].root = Err("CacheDirNotFound", "")]
                 /\ Return(t)
                 /\ UNCHANGED downloadLock
    /\ UNCHANGED <<single, featVars, call, ret, raised, disk, downloadsStarted, downloadsFailed,
                   sharedVars>>

\* data_dir.is_dir() && data_dir.join("dataPaths.json").is_file()
GdrCheck(t) ==
    /\ pc[t] = "gdr_check"
    /\ IF SENTINEL \in disk
         THEN GdrSucceed(t)
         ELSE /\ Goto(t, "gdr_mkdir")
              /\ UNCHANGED <<dataPath, downloadLock, loc>>
    /\ UNCHANGED <<single, faultsLeft, featVars, call, ret, raised, disk, downloadsStarted, downloadsFailed,
                   sharedVars>>

\* create_dir_all(base_dir), then the call of download_and_extract.
GdrMkdir(t) ==
    /\ pc[t] = "gdr_mkdir"
    /\ \/ /\ Goto(t, "dl_request")
          /\ downloadsStarted' = downloadsStarted + 1
          /\ UNCHANGED <<dataPath, downloadLock, loc>>
          /\ NoFault
       \/ /\ Fault
          /\ GdrFail(t, "IoError")
          /\ UNCHANGED downloadsStarted
    /\ UNCHANGED <<single, featVars, call, ret, raised, disk, downloadsFailed, sharedVars>>

\* The HTTP request, the status check and the read of the body.
DlRequest(t) ==
    /\ pc[t] = "dl_request"
    /\ \/ /\ Goto(t, "dl_open")
          /\ UNCHANGED <<dataPath, downloadLock, loc, downloadsFailed>>
          /\ NoFault
       \/ /\ Fault
          /\ GdrFail(t, "DownloadError")
          /\ downloadsFailed' = downloadsFailed + 1
    /\ UNCHANGED <<single, featVars, call, ret, raised, disk, downloadsStarted, sharedVars>>

\* ZipArchive::new on the downloaded bytes.
DlOpen(t) ==
    /\ pc[t] = "dl_open"
    /\ \/ \E a \in Archives :
            /\ loc' = [loc EXCEPT ![t].archive = a, ![t].i = 1]
            /\ Goto(t, "dl_purge")
            /\ UNCHANGED <<dataPath, downloadLock, downloadsFailed>>
            /\ IF a = GoodArchive THEN NoFault ELSE Fault
       \/ /\ Fault
          /\ GdrFail(t, "ArchiveError")
          /\ downloadsFailed' = downloadsFailed + 1
    /\ UNCHANGED <<single, featVars, call, ret, raised, disk, downloadsStarted, sharedVars>>

\* remove_dir_all(target) when it exists, then create_dir_all(target).
DlPurge(t) ==
    /\ pc[t] = "dl_purge"
    /\ \/ /\ disk' = {}
          /\ Goto(t, "dl_extract")
          /\ UNCHANGED <<dataPath, downloadLock, loc, downloadsFailed>>
          /\ NoFault
       \/ /\ Fault
          /\ disk' \in {disk, {}}
          /\ GdrFail(t, "IoError")
          /\ downloadsFailed' = downloadsFailed + 1
    /\ UNCHANGED <<single, featVars, call, ret, raised, downloadsStarted, sharedVars>>

\* One turn of the extraction loop, or its end. An entry that enclosed_name()
\* rejects or that lies outside the data folder is skipped.
DlExtract(t) ==
    /\ pc[t] = "dl_extract"
    /\ LET a == loc[t].archive
           i == loc[t].i
       IN IF i > Len(a)
            THEN /\ Goto(t, "gdr_verify")
                 /\ UNCHANGED <<dataPath, downloadLock, loc, disk,
                                downloadsFailed>>
                 /\ NoFault
            ELSE \/ /\ disk' = IF a[i].enclosed /\ a[i].inData
                                 THEN disk \cup {a[i].name}
                                 ELSE disk
                    /\ loc' = [loc EXCEPT ![t].i = i + 1]
                    /\ Goto(t, "dl_extract")
                    /\ UNCHANGED <<dataPath, downloadLock, downloadsFailed>>
                    /\ NoFault
                 \/ \E kind \in {"ArchiveError", "IoError"} :
                    /\ Fault
                    /\ (kind = "IoError") => (a[i].enclosed /\ a[i].inData)
                    /\ GdrFail(t, kind)
                    /\ downloadsFailed' = downloadsFailed + 1
                    /\ UNCHANGED disk
    /\ UNCHANGED <<single, featVars, call, ret, raised, downloadsStarted, sharedVars>>

\* The check after download_and_extract returned Ok.
GdrVerify(t) ==
    /\ pc[t] = "gdr_verify"
    /\ IF SENTINEL \in disk
         THEN /\ GdrSucceed(t)
              /\ UNCHANGED downloadsFailed
         ELSE /\ GdrFail(t, "DownloadVerificationFailed")
              /\ downloadsFailed' = downloadsFailed + 1
    /\ UNCHANGED <<single, faultsLeft, featVars, call, ret, raised, disk, downloadsStarted, sharedVars>>

get_data_root(t) ==
    \/ GdrEnter(t)
    \/ GdrLock(t)
    \/ GdrCheck(t)
    \/ GdrMkdir(t)
    \/ DlRequest(t)
    \/ DlOpen(t)
    \/ DlPurge(t)
    \/ DlExtract(t)
    \/ GdrVerify(t)

\* A thread calls get_data_root, as the loaders of the crate do.
StartGetDataRoot(t) ==
    /\ pc[t] = "idle"
    /\ call' = [call EXCEPT ![t] = [op |-> "get_data_root"]]
    /\ Enter(t, "gdr", "root_done")
    /\ UNCHANGED <<single, faultsLeft, featVars, loc, ret, raised, rootVars, sharedVars>>

\* get_data_root returned to the thread that called it. A caller that got an
\* error may call again.
RootDone(t) ==
    /\ pc[t] = "root_done"
    /\ ret' = [ret EXCEPT ![t] = Some(loc[t].root)]
    /\ Goto(t, IF loc[t].root.ok THEN "done" ELSE "idle")
    /\ UNCHANGED <<single, faultsLeft, featVars, call, loc, raised, rootVars, sharedVars>>

InitRoot ==
    /\ rawVersions = [e \in Editions |-> <<>>]
    /\ loadedVersions = None
    /\ last = NoCall
    /\ ProcessStart
    /\ disk \in {{}, FullDisk}
    /\ faultsLeft = MaxFaults

NextRoot ==
    \E t \in Threads :
        \/ StartGetDataRoot(t)
        \/ get_data_root(t)
        \/ RootDone(t)

SpecRoot == InitRoot /\ [][NextRoot]_vars

\* A thread that got the path calls get_data_root again; ret keeps the
\* result of its earlier call until the new one returns.
RootAgain(t) ==
    /\ pc[t] = "done"
    /\ call[t].op = "get_data_root"
    /\ Enter(t, "gdr", "root_done")
    /\ UNCHANGED <<single, faultsLeft, featVars, call, loc, ret, raised, rootVars,
                   sharedVars>>

\* Once the path is memoized, the user or another program removes
\* dataPaths.json or the whole data tree.
RemoveData ==
    /\ dataPath.val.some
    /\ disk # {}
    /\ disk' \in {disk \ {SENTINEL}, {}} \ {disk}
    /\ UNCHANGED <<single, faultsLeft, featVars, threadVars, dataPath, downloadLock,
                   downloadsStarted, downloadsFailed, sharedVars>>

NextRootLater ==
    \/ NextRoot
    \/ \E t \in Threads : RootAgain(t)
    \/ RemoveData

SpecRootLater == InitRoot /\ [][NextRootLater]_vars

\* ------------------------------------------------- the registry, by threads

\* The outcomes of load_data_from_path: the file is read and parsed, or
\* read_to_string fails, or serde_json fails.
ReadErrors == {"IoError", "JsonParseError"}

\* get_version_data: LOADED_VERSIONS.get_or_init. A set cell answers at once,
\* an empty one makes the caller load both editions, PC first.
GvdEnter(t) ==
    /\ pc[t] = "gvd"
    /\ IF loadedVersions.some
         THEN /\ Return(t)
              /\ UNCHANGED <<versionsInit, loc>>
         ELSE /\ versionsInit = 0
              /\ versionsInit' = t
              /\ loc' = [loc EXCEPT ![t].edition = Pc, ![t].map = EmptyMap]
              /\ Enter(t, "gdr", "gv_root")
    /\ UNCHANGED <<single, faultsLeft, featVars, call, ret, raised, rootVars, loadedVersions,
                   dataPaths, dataCache>>

\* The initializer has the Result of an edition: it goes on with Bedrock, or
\* stores the map of both editions in the cell.
GvStore(t, result) ==
    LET map == MapInsert(loc[t].map, loc[t].edition, result)
    IN  IF loc[t].edition = Pc
          THEN /\ loc' = [loc EXCEPT ![t].edition = Bedrock, ![t].map = map]
               /\ Enter(t, "gdr", "gv_root")
               /\ UNCHANGED <<loadedVersions, versionsInit>>
          ELSE /\ loc' = [loc EXCEPT ![t].map = EmptyMap]
               /\ loadedVersions' = Some(map)
               /\ versionsInit' = 0
               /\ Return(t)

\* load_and_index_versions after its get_data_root()? returned.
GvRoot(t) ==
    /\ pc[t] = "gv_root"
    /\ IF loc[t].root.ok
         THEN /\ Goto(t, "gv_io")
              /\ UNCHANGED <<loc, loadedVersions, versionsInit>>
         ELSE GvStore(t, loc[t].root)
    /\ UNCHANGED <<single, faultsLeft, featVars, call, ret, raised, rootVars, dataPaths, dataCache>>

\* The protocolVersions.json files the threads run on.
RawListPc ==
    <<[minecraft_version |-> V1181, major_version |-> V118, version |-> 6,
       data_version |-> Some(2), release_type |-> RELEASE],
      [minecraft_version |-> V118, major_version |-> V118, version |-> 5,
       data_version |-> Some(1), release_type |-> RELEASE]>>

RawListBedrock ==
    <<[minecraft_version |-> V118, major_version |-> V118, version |-> 5,
       data_version |-> None, release_type |-> RELEASE]>>

\* The registries of the bundled protocolVersions.json files, evaluated once.
BundledVersions ==
    [e \in Editions |->
        load_and_index_versions(IF e = Pc THEN RawListPc ELSE RawListBedrock, e)]

\* The registry load_and_index_versions builds from the list on disk.
ReadVersions(edition) ==
    IF rawVersions[edition] = (IF edition = Pc THEN RawListPc ELSE RawListBedrock)
      THEN BundledVersions[edition]
      ELSE load_and_index_versions(rawVersions[edition], edition)

\* load_protocol_versions reads <edition>/common/protocolVersions.json, and
\* the list is indexed.
GvIo(t) ==
    /\ pc[t] = "gv_io"
    /\ \/ /\ \E vd \in ReadVersions(loc[t].edition) : GvStore(t, Ok(vd))
          /\ NoFault
       \/ /\ \E kind \in ReadErrors : GvStore(t, Err(kind, ""))
          /\ Fault
    /\ UNCHANGED <<single, featVars, call, ret, raised, rootVars, dataPaths, dataCache>>

get_version_data_steps(t) ==
    \/ GvdEnter(t)
    \/ GvRoot(t)
    \/ GvIo(t)

\* ---------------------------------------------------- mc_data, by threads

\* The data keys IndexedData::load asks for, in its order: the two required
\* ones, then "biomes" for the keys of load_optional! and "recipes" for the
\* keys of load_optional_value!.
DataKeys == <<"blocks", "items", "biomes", "recipes">>

RequiredKeys == {"blocks", "items"}

\* The parsed dataPaths.json, as the set of data keys it has a path for.
PathTables == {{"blocks", "items", "biomes", "recipes"}, {"blocks", "items"}}

\* The errors load_optional! and load_optional_value! turn into None.
NotFoundKinds == {"DataPathNotFound", "DataFileNotFound"}

\* format!("{}_{}", version.edition.path_prefix(), version.minecraft_version)
cache_key(version) ==
    <<path_prefix(version.edition), "_">> \o version.minecraft_version

\* The places of IndexedData::load.
LoadLabels == {"ld_key", "dp_root", "dp_io", "dp_done", "ld_io", "ld_legacy"}

\* A thread calls mc_data(version_str).
StartMcData(t, version_str) ==
    /\ pc[t] = "idle"
    /\ call' = [call EXCEPT ![t] = [op |-> "mc_data", arg |-> version_str]]
    /\ Enter(t, "gvd", "md_resolve")
    /\ UNCHANGED <<single, faultsLeft, featVars, loc, ret, raised, rootVars, sharedVars>>

\* The call returns to its caller. Its locals are dropped, but for the
\* snapshot it built, which records that it loaded.
Finish(t, result) ==
    /\ ret' = [ret EXCEPT ![t] = Some(result)]
    /\ loc' = [loc EXCEPT ![t] = [NoLocals EXCEPT !.arc = loc[t].arc]]
    /\ Goto(t, "done")

\* version::resolve_version(version_str)? and the cache key.
MdResolve(t) ==
    /\ pc[t] = "md_resolve"
    /\ LET r == resolve_version(loadedVersions.val, call[t].arg)
       IN  IF r.ok
             THEN /\ loc' = [loc EXCEPT ![t].version = Some(r.val),
                                        ![t].key = cache_key(r.val)]
                  /\ Goto(t, "md_rlock")
                  /\ UNCHANGED <<ret, raised>>
             ELSE /\ Finish(t, r)
                  /\ Raise(t, IF r.kind = "Internal" THEN r.arg ELSE r.kind)
    /\ UNCHANGED <<single, faultsLeft, featVars, call, rootVars, sharedVars>>

\* DATA_CACHE.read()
MdReadLock(t) ==
    /\ pc[t] = "md_rlock"
    /\ dataCache.writer = 0
    /\ dataCache' = [dataCache EXCEPT !.readers = @ \cup {t}]
    /\ Goto(t, "md_rcheck")
    /\ UNCHANGED <<single, faultsLeft, featVars, call, loc, ret, raised, rootVars, loadedVersions,
                   versionsInit, dataPaths>>

\* The check with a guard that outlives the block: the read lock is kept
\* during the load.
MdReadCheck_KeepLock(t) ==
    /\ pc[t] = "md_rcheck"
    /\ IF loc[t].key \in DOMAIN dataCache.map
         THEN /\ Finish(t, Ok(dataCache.map[loc[t].key]))
              /\ dataCache' = [dataCache EXCEPT !.readers = @ \ {t}]
         ELSE /\ loc' = [loc EXCEPT ![t].k = 1]
              /\ Goto(t, "ld_key")
              /\ UNCHANGED <<ret, dataCache>>
    /\ UNCHANGED <<single, faultsLeft, featVars, call, raised, rootVars,
                   loadedVersions, versionsInit, dataPaths>>

\* cache.get(&cache_key) under the read lock, which is then released.
MdReadCheck(t) ==
    /\ pc[t] = "md_rcheck"
    /\ dataCache' = [dataCache EXCEPT !.readers = @ \ {t}]
    /\ IF loc[t].key \in DOMAIN dataCache.map
         THEN Finish(t, Ok(dataCache.map[loc[t].key]))
         ELSE /\ loc' = [loc EXCEPT ![t].k = 1]
              /\ Goto(t, "ld_key")
              /\ UNCHANGED ret
    /\ UNCHANGED <<single, faultsLeft, featVars, call, raised, rootVars, loadedVersions,
                   versionsInit, dataPaths>>

\* IndexedData::load fails with this error, and mc_data returns it.
LoadFail(t, kind) == Finish(t, Err(kind, ""))

\* The file of key k is loaded or found absent: the next key, or legacy.json.
NextKey(t) ==
    /\ loc' = [loc EXCEPT ![t].k = @ + 1]
    /\ Goto(t, IF loc[t].k < Len(DataKeys) THEN "ld_key" ELSE "ld_legacy")
    /\ UNCHANGED ret

\* load_optional! with a catch-all arm: every error of an optional key is
\* None.
KeyError_OptionalIgnoresAll(t, kind) ==
    IF DataKeys[loc[t].k] \notin RequiredKeys
      THEN NextKey(t) /\ UNCHANGED raised
      ELSE LoadFail(t, kind) /\ Raise(t, kind)

\* An error of load_data for key k: a required key fails the load, an optional
\* one is None when the path or the file is not found.
KeyError(t, kind) ==
    IF DataKeys[loc[t].k] \notin RequiredKeys /\ kind \in NotFoundKinds
      THEN NextKey(t) /\ UNCHANGED raised
      ELSE LoadFail(t, kind) /\ Raise(t, kind)

\* get_data_paths once get_or_try_init has returned the stored Result: a
\* stored error comes back as CachedError with the message of that error, and
\* get_path_suffix looks the key up in a stored table.
DpMatch(t) ==
    IF ~dataPaths.val.val.ok
      THEN /\ Finish(t, Err("CachedError", dataPaths.val.val.kind))
           /\ Raise(t, dataPaths.val.val.kind)
      ELSE IF DataKeys[loc[t].k] \in dataPaths.val.val.val
             THEN /\ Goto(t, "ld_io")
                  /\ UNCHANGED <<loc, ret, raised>>
             ELSE KeyError(t, "DataPathNotFound")

\* loader::load_data for key k up to the path suffix: get_data_paths runs
\* LOADED_DATA_PATHS.get_or_try_init, and get_path_suffix looks the key up.
LdKey(t) ==
    /\ pc[t] = "ld_key"
    /\ IF dataPaths.val.some
         THEN /\ DpMatch(t)
              /\ UNCHANGED dataPaths
         ELSE /\ dataPaths.init = 0
              /\ dataPaths' = [dataPaths EXCEPT !.init = t]
              /\ Enter(t, "gdr", "dp_root")
              /\ UNCHANGED <<loc, ret, raised>>
    /\ UNCHANGED <<single, faultsLeft, featVars, call, rootVars, loadedVersions, versionsInit,
                   dataCache>>

\* The initializer of LOADED_DATA_PATHS after its get_data_root()? returned:
\* on an error the cell stays empty and the error is the result of load_data.
DpRoot(t) ==
    /\ pc[t] = "dp_root"
    /\ IF loc[t].root.ok
         THEN /\ Goto(t, "dp_io")
              /\ UNCHANGED <<dataPaths, loc, ret, raised>>
         ELSE /\ dataPaths' = [dataPaths EXCEPT !.init = 0]
              /\ LoadFail(t, loc[t].root.kind)
              /\ Raise(t, loc[t].root.kind)
    /\ UNCHANGED <<single, faultsLeft, featVars, call, rootVars, loadedVersions, versionsInit,
                   dataCache>>

\* load_data_from_path(dataPaths.json): the Result, Ok or Err, is stored.
DpIo(t) ==
    /\ pc[t] = "dp_io"
    /\ \/ /\ \E table \in PathTables :
                dataPaths' = [val |-> Some(Ok(table)), init |-> 0]
          /\ NoFault
       \/ /\ \E kind \in ReadErrors :
                dataPaths' = [val |-> Some(Err(kind, "")), init |-> 0]
          /\ Fault
    /\ Goto(t, "dp_done")
    /\ UNCHANGED <<single, featVars, call, loc, ret, raised, rootVars, loadedVersions,
                   versionsInit, dataCache>>

\* get_data_paths of the call that ran the initializer: get_or_try_init
\* hands it the Result it has just stored.
DpDone(t) ==
    /\ pc[t] = "dp_done"
    /\ DpMatch(t)
    /\ UNCHANGED <<single, faultsLeft, featVars, call, rootVars, sharedVars>>

\* get_full_data_path's read_dir and load_data_from_path for key k.
LdIo(t) ==
    /\ pc[t] = "ld_io"
    /\ \/ NextKey(t) /\ UNCHANGED raised /\ NoFault
       \/ KeyError(t, "DataFileNotFound") /\ NoFault
       \/ /\ \E kind \in ReadErrors : KeyError(t, kind)
          /\ Fault
    /\ UNCHANGED <<single, featVars, call, rootVars, sharedVars>>

\* legacy.json is read, every failure gives None; the data is indexed and
\* Arc::new makes the snapshot of this call.
LdLegacy(t) ==
    /\ pc[t] = "ld_legacy"
    /\ \/ UNCHANGED raised /\ NoFault
       \/ /\ \E kind \in ReadErrors : Raise(t, kind)
          /\ Fault
    /\ loc' = [loc EXCEPT ![t].arc =
                    Some([by |-> t, version |-> loc[t].version.val])]
    /\ Goto(t, "md_wlock")
    /\ UNCHANGED <<single, featVars, call, ret, rootVars, sharedVars>>

\* DATA_CACHE.write()
MdWriteLock(t) ==
    /\ pc[t] = "md_wlock"
    /\ dataCache.writer = 0
    /\ dataCache.readers = {}
    /\ dataCache' = [dataCache EXCEPT !.writer = t]
    /\ Goto(t, "md_wcheck")
    /\ UNCHANGED <<single, faultsLeft, featVars, call, loc, ret, raised, rootVars, loadedVersions,
                   versionsInit, dataPaths>>

\* The double-check that finds a snapshot but returns the one of this call.
MdWriteCheck_KeepOwn(t) ==
    /\ pc[t] = "md_wcheck"
    /\ dataCache' = [dataCache EXCEPT
                        !.writer = 0,
                        !.map = IF loc[t].key \in DOMAIN @ THEN @
                                ELSE MapInsert(@, loc[t].key, loc[t].arc.val)]
    /\ Finish(t, Ok(loc[t].arc.val))
    /\ UNCHANGED <<single, faultsLeft, featVars, call, raised, rootVars,
                   loadedVersions, versionsInit, dataPaths>>

\* The insert without the double-check: the snapshot of this call replaces
\* the one another thread inserted during the load.
MdWriteCheck_NoRecheck(t) ==
    /\ pc[t] = "md_wcheck"
    /\ dataCache' = [dataCache EXCEPT
                        !.writer = 0,
                        !.map = MapInsert(@, loc[t].key, loc[t].arc.val)]
    /\ Finish(t, Ok(loc[t].arc.val))
    /\ UNCHANGED <<single, faultsLeft, featVars, call, raised, rootVars, loadedVersions,
                   versionsInit, dataPaths>>

\* Under the write lock: the double-check returns the snapshot another thread
\* inserted, else the snapshot of this call is inserted and returned. The
\* lock is released.
MdWriteCheck(t) ==
    /\ pc[t] = "md_wcheck"
    /\ IF loc[t].key \in DOMAIN dataCache.map
         THEN /\ dataCache' = [dataCache EXCEPT !.writer = 0]
              /\ Finish(t, Ok(dataCache.map[loc[t].key]))
         ELSE /\ dataCache' = [dataCache EXCEPT
                                !.writer = 0,
                                !.map = MapInsert(@, loc[t].key, loc[t].arc.val)]
              /\ Finish(t, Ok(loc[t].arc.val))
    /\ UNCHANGED <<single, faultsLeft, featVars, call, raised, rootVars, loadedVersions,
                   versionsInit, dataPaths>>

mc_data(t) ==
    \/ MdResolve(t)
    \/ MdReadLock(t)
    \/ MdReadCheck(t)
    \/ LdKey(t)
    \/ DpRoot(t)
    \/ DpIo(t)
    \/ DpDone(t)
    \/ LdIo(t)
    \/ LdLegacy(t)
    \/ MdWriteLock(t)
    \/ MdWriteCheck(t)

\* -------------------------------------------- support_feature, by threads

\* The features.json of an edition: features with a [min, max] range of
\* plain version strings.
FeatureFile(edition) ==
    IF edition = Pc
      THEN <<[name |-> "f", versions |-> <<V118, V1181>>],
             [name |-> "g", versions |-> <<V1181, <<"zz">>>>]>>
      ELSE <<[name |-> "f", versions |-> <<V118, V118>>]>>

FeatureNames == {"f", "g"}

\* A thread calls support_feature on the snapshot mc_data returned to it.
StartSupportFeature(t, feature_name) ==
    /\ pc[t] = "done"
    /\ call[t].op = "mc_data"
    /\ ret[t].val.ok
    /\ call' = [call EXCEPT ![t] = [op |-> "support_feature",
                                    self |-> ret[t].val.val,
                                    arg |-> feature_name]]
    /\ ret' = [ret EXCEPT ![t] = None]
    /\ Goto(t, "sf_features")
    /\ UNCHANGED <<single, faultsLeft, featVars, loc, raised, rootVars, sharedVars>>

\* get_features: LOADED_FEATURES.get_or_init, which loads both editions.
SfFeatures(t) ==
    /\ pc[t] = "sf_features"
    /\ IF features.val.some
         THEN /\ Goto(t, "sf_eval")
              /\ UNCHANGED <<features, loc>>
         ELSE /\ features.init = 0
              /\ features' = [features EXCEPT !.init = t]
              /\ loc' = [loc EXCEPT ![t].edition = Pc, ![t].map = EmptyMap]
              /\ Enter(t, "gdr", "ft_root")
    /\ UNCHANGED <<single, faultsLeft, resolvedCache, call, ret, raised, rootVars,
                   sharedVars>>

\* The initializer has the Result of an edition: it goes on with Bedrock, or
\* stores the map of both editions in the cell.
FtStore(t, result) ==
    LET map == MapInsert(loc[t].map, loc[t].edition, result)
    IN  IF loc[t].edition = Pc
          THEN /\ loc' = [loc EXCEPT ![t].edition = Bedrock, ![t].map = map]
               /\ Enter(t, "gdr", "ft_root")
               /\ UNCHANGED features
          ELSE /\ loc' = [loc EXCEPT ![t].map = EmptyMap]
               /\ features' = [val |-> Some(map), init |-> 0]
               /\ Goto(t, "sf_eval")

\* load_features_for_edition after its get_data_root()? returned.
FtRoot(t) ==
    /\ pc[t] = "ft_root"
    /\ IF loc[t].root.ok
         THEN /\ Goto(t, "ft_io")
              /\ UNCHANGED <<loc, features>>
         ELSE FtStore(t, loc[t].root)
    /\ UNCHANGED <<single, faultsLeft, resolvedCache, call, ret, raised, rootVars,
                   sharedVars>>

\* load_data_from_path(<edition>/common/features.json)
FtIo(t) ==
    /\ pc[t] = "ft_io"
    /\ \/ /\ FtStore(t, Ok(FeatureFile(loc[t].edition)))
          /\ NoFault
       \/ /\ \E kind \in ReadErrors : FtStore(t, Err(kind, ""))
          /\ Fault
    /\ UNCHANGED <<single, resolvedCache, call, ret, raised, rootVars,
                   sharedVars>>

\* The entries of a features list with this name, by position.
Named(list, feature_name) ==
    {i \in 1..Len(list) : list[i].name = feature_name}

\* The greatest position of a set of positions: iter().rev().find(..).
Last(positions) == CHOOSE i \in positions : \A j \in positions : j <= i

\* get_feature_support after get_features: the memoized error of the edition
\* is wrapped in Internal, a feature that is not listed is Bool(false), and
\* the range of a listed one is checked.
SfEval(t) ==
    /\ pc[t] = "sf_eval"
    /\ LET stored == features.val.val[call[t].self.version.edition]
       IN  IF ~stored.ok
             THEN /\ Finish(t, Err("Internal", stored.kind))
                  /\ Raise(t, stored.kind)
             ELSE IF Named(stored.val, call[t].arg) = {}
                    THEN /\ Finish(t, Ok(FALSE))
                         /\ UNCHANGED raised
                    ELSE /\ loc' = [loc EXCEPT
                                ![t].range =
                                    stored.val[Last(Named(stored.val,
                                                          call[t].arg))].versions,
                                ![t].bounds = <<>>]
                         /\ Goto(t, "rc_rlock")
                         /\ UNCHANGED <<ret, raised>>
    /\ UNCHANGED <<single, faultsLeft, featVars, call, rootVars, sharedVars>>

\* The endpoint string resolve_cached_version is resolving, and its key.
Endpoint(t) == loc[t].range[Len(loc[t].bounds) + 1]

resolved_key(t) == <<call[t].self.version.edition, Endpoint(t)>>

\* RESOLVED_VERSION_CACHE.read()
RcReadLock(t) ==
    /\ pc[t] = "rc_rlock"
    /\ resolvedCache.writer = 0
    /\ resolvedCache' = [resolvedCache EXCEPT !.readers = @ \cup {t}]
    /\ Goto(t, "rc_rcheck")
    /\ UNCHANGED <<single, faultsLeft, features, call, loc, ret, raised, rootVars,
                   sharedVars>>

\* is_version_in_range has resolved an endpoint: the other endpoint, or the
\* comparison target >= min && target <= max, whose value Bool(true) or the
\* default Bool(false) is the result.
Bound(t, v) ==
    IF Len(loc[t].bounds) = 0
      THEN /\ loc' = [loc EXCEPT ![t].bounds = <<v>>]
           /\ Goto(t, "rc_rlock")
           /\ UNCHANGED <<ret, raised>>
      ELSE /\ Finish(t, Ok(ge(call[t].self.version, loc[t].bounds[1])
                           /\ le(call[t].self.version, v)))
           /\ UNCHANGED raised

\* cache.get(&cache_key) under the read lock, which is then released.
RcReadCheck(t) ==
    /\ pc[t] = "rc_rcheck"
    /\ resolvedCache' = [resolvedCache EXCEPT !.readers = @ \ {t}]
    /\ IF resolved_key(t) \in DOMAIN resolvedCache.map
         THEN Bound(t, resolvedCache.map[resolved_key(t)])
         ELSE /\ Goto(t, "rc_resolve")
              /\ UNCHANGED <<loc, ret, raised>>
    /\ UNCHANGED <<single, faultsLeft, features, call, rootVars, sharedVars>>

\* crate::version::resolve_version(version_str) and the check of its edition.
RcResolve(t) ==
    /\ pc[t] = "rc_resolve"
    /\ LET r == resolve_version(loadedVersions.val, Endpoint(t))
       IN  IF ~r.ok
             THEN /\ Finish(t, r)
                  /\ Raise(t, IF r.kind = "Internal" THEN r.arg ELSE r.kind)
             ELSE IF r.val.edition # call[t].self.version.edition
                    THEN /\ Finish(t, Err("Internal", "edition mismatch"))
                         /\ Raise(t, "Internal")
                    ELSE /\ loc' = [loc EXCEPT ![t].version = Some(r.val)]
                         /\ Goto(t, "rc_wlock")
                         /\ UNCHANGED <<ret, raised>>
    /\ UNCHANGED <<single, faultsLeft, featVars, call, rootVars, sharedVars>>

\* RESOLVED_VERSION_CACHE.write()
RcWriteLock(t) ==
    /\ pc[t] = "rc_wlock"
    /\ resolvedCache.writer = 0
    /\ resolvedCache.readers = {}
    /\ resolvedCache' = [resolvedCache EXCEPT !.writer = t]
    /\ Goto(t, "rc_insert")
    /\ UNCHANGED <<single, faultsLeft, features, call, loc, ret, raised, rootVars,
                   sharedVars>>

\* cache.entry(cache_key).or_insert_with(..), the release of the lock, and
\* the return of the resolution of this call.
RcInsert(t) ==
    /\ pc[t] = "rc_insert"
    /\ resolvedCache' =
            [resolvedCache EXCEPT
                !.writer = 0,
                !.map = IF resolved_key(t) \in DOMAIN @ THEN @
                        ELSE MapInsert(@, resolved_key(t), loc[t].version.val)]
    /\ Bound(t, loc[t].version.val)
    /\ UNCHANGED <<single, faultsLeft, features, call, rootVars, sharedVars>>

support_feature(t) ==
    \/ SfFeatures(t)
    \/ FtRoot(t)
    \/ FtIo(t)
    \/ SfEval(t)
    \/ RcReadLock(t)
    \/ RcReadCheck(t)
    \/ RcResolve(t)
    \/ RcWriteLock(t)
    \/ RcInsert(t)

\* The version strings the threads pass to mc_data.
McDataStrings ==
    {V118, <<PC_PREFIX>> \o V118, <<BEDROCK_PREFIX>> \o V118, <<"zz">>}

Init ==
    /\ rawVersions = [e \in Editions |->
                        IF e = Pc THEN RawListPc ELSE RawListBedrock]
    /\ loadedVersions = None
    /\ last = NoCall
    /\ ProcessStart
    /\ disk \in {{}, FullDisk}
    /\ faultsLeft = MaxFaults

Next ==
    \E t \in Threads :
        \/ \E s \in McDataStrings : StartMcData(t, s)
        \/ \E name \in FeatureNames : StartSupportFeature(t, name)
        \/ get_data_root(t)
        \/ get_version_data_steps(t)
        \/ mc_data(t)
        \/ support_feature(t)

Spec == Init /\ [][Next]_vars

\* The calls of the threads whose termination is examined: a valid and an
\* invalid version string, and the feature whose endpoints are resolved
\* through the cache.
LiveStrings == {V118, <<"zz">>}

LiveFeatures == {"f"}

\* The steps of one thread.
ThreadNext(t) ==
    \/ \E s \in LiveStrings : StartMcData(t, s)
    \/ \E name \in LiveFeatures : StartSupportFeature(t, name)
    \/ get_data_root(t)
    \/ get_version_data_steps(t)
    \/ mc_data(t)
    \/ support_feature(t)

NextLive == \E t \in Threads : ThreadNext(t)

\* Every I/O step terminates and the scheduler runs every thread that can
\* take a step: a thread whose next step stays possible takes it.
SpecLive == Init /\ [][NextLive]_vars /\ \A t \in Threads : WF_vars(ThreadNext(t))

\* ------------------------------------------ support_feature, single-threaded

\* serde_json::Value of a feature, by its text.
BoolTrue == "Bool(true)"

BoolFalse == "Bool(false)"

\* The range check of a FeatureValue or of a Feature without values: its
\* version string when it has one, else its versions when they are two, else
\* no range, which matches nothing.
RangeCheck(cell, target_version, x) ==
    IF x.version.some
    THEN is_version_in_range(cell, target_version, x.version.val, x.version.val)
    ELSE IF Len(x.versions) = 2
    THEN is_version_in_range(cell, target_version, x.versions[1], x.versions[2])
    ELSE Ok(FALSE)

\* for fv in feature.values.iter().rev(), from entry i down: the value of the
\* first entry in range, the error of a range check, or no match.
RECURSIVE ScanValues(_, _, _, _)
RECURSIVE ScanValues_SkipUnresolved(_, _, _, _)
\* The scan with an entry whose endpoint does not resolve counted as not
\* containing the version.
ScanValues_SkipUnresolved(cell, target_version, values, i) ==
    IF i = 0 THEN Ok(None)
    ELSE LET in_range == RangeCheck(cell, target_version, values[i])
         IN  IF in_range.ok /\ in_range.val THEN Ok(Some(values[i].value))
             ELSE ScanValues_SkipUnresolved(cell, target_version, values, i - 1)

ScanValues(cell, target_version, values, i) ==
    IF i = 0 THEN Ok(None)
    ELSE LET in_range == RangeCheck(cell, target_version, values[i])
         IN  IF ~in_range.ok THEN in_range
             ELSE IF in_range.val THEN Ok(Some(values[i].value))
             ELSE ScanValues(cell, target_version, values, i - 1)

\* features.iter().find(..): the first record with the name.
FindFeature_First(list, feature_name) ==
    IF \E i \in 1..Len(list) : list[i].name = feature_name
    THEN Some(list[CHOOSE i \in 1..Len(list) :
                    /\ list[i].name = feature_name
                    /\ \A j \in 1..(i - 1) : list[j].name # feature_name])
    ELSE None

\* features.iter().rev().find(|f| f.name == feature_name)
FindFeature(list, feature_name) ==
    IF \E i \in 1..Len(list) : list[i].name = feature_name
    THEN Some(list[CHOOSE i \in 1..Len(list) :
                    /\ list[i].name = feature_name
                    /\ \A j \in (i + 1)..Len(list) : list[j].name # feature_name])
    ELSE None

\* get_feature_support, given the Result get_features has for the edition.
get_feature_support(cell, stored, target_version, feature_name) ==
    IF ~stored.ok THEN Err("Internal", stored.kind)
    ELSE LET found == FindFeature(stored.val, feature_name)
         IN  IF ~found.some THEN Ok(BoolFalse)
             ELSE LET feature == found.val
                  IN  IF feature.values # <<>>
                      THEN LET scan == ScanValues(cell, target_version,
                                                  feature.values,
                                                  Len(feature.values))
                           IN  IF ~scan.ok THEN scan
                               ELSE IF scan.val.some THEN Ok(scan.val.val)
                               ELSE Ok(BoolFalse)
                      ELSE IF feature.version.some \/ Len(feature.versions) = 2
                      THEN LET in_range == RangeCheck(cell, target_version, feature)
                           IN  IF ~in_range.ok THEN in_range
                               ELSE IF in_range.val THEN Ok(BoolTrue)
                               ELSE Ok(BoolFalse)
                      ELSE Ok(BoolFalse)

\* A FeatureValue and a Feature of features.json.
FeatureValue(value, version, versions) ==
    [value |-> value, version |-> version, versions |-> versions]

Feature(name, values, version, versions) ==
    [name |-> name, values |-> values, version |-> version, versions |-> versions]

WholeSeries == <<V118 \o <<MAJOR_SUFFIX>>, LATEST>>

\* The values arrays of the records: ranges that overlap in either order, an
\* unresolvable range before a good one, and an entry without a range.
ValueArrays ==
    LET only118 == FeatureValue("Number(7)", None, <<V118, V118>>)
        whole == FeatureValue("Number(8)", None, WholeSeries)
        only1181 == FeatureValue("Number(9)", Some(V1181), <<>>)
        unknown == FeatureValue(BoolTrue, None, <<<<"zz">>, LATEST>>)
        norange == FeatureValue("Number(6)", None, <<V118>>)
    IN  {<<only118, whole>>, <<whole, only118>>, <<unknown, only1181>>,
         <<norange>>}

\* The records of a features.json.
FeatureRecords ==
    {Feature(name, values, None, WholeSeries) :
        name \in FeatureNames, values \in ValueArrays}
    \cup {Feature(name, <<>>, version, versions) :
            name \in FeatureNames, version \in {None, Some(V118)},
            versions \in {<<>>, <<V1181, LATEST>>, <<<<"zz">>, V118>>}}

\* The longest features.json.
MaxFeatures == 2

FeatureLists == UNION {[1..n -> FeatureRecords] : n \in 0..MaxFeatures}

\* snapshot.support_feature(feature_name) on a snapshot of this version: the
\* first call reads the features.json of both editions into LOADED_FEATURES.
CallSupportFeature(target_version, feature_name) ==
    /\ loadedVersions.some
    /\ last = NoCall
    /\ ~features.val.some
    /\ \E list \in FeatureLists :
        LET map == [e \in Editions |->
                        IF e = target_version.edition THEN Ok(list) ELSE Ok(<<>>)]
        IN  /\ features' = [val |-> Some(map), init |-> 0]
            /\ last' = [op |-> "support_feature", self |-> target_version,
                        arg |-> feature_name,
                        result |-> get_feature_support(
                                        loadedVersions.val,
                                        map[target_version.edition],
                                        target_version, feature_name)]
    /\ UNCHANGED <<rawVersions, faultsLeft, resolvedCache, threadVars, rootVars,
                   sharedVars>>

InitFeature ==
    /\ rawVersions = [e \in Editions |->
                        IF e = Pc THEN RawListPc ELSE RawListBedrock]
    /\ loadedVersions = None
    /\ last = NoCall
    /\ ProcessStart
    /\ disk = {}
    /\ faultsLeft = 0

NextFeature ==
    \/ LoadVersions
    \/ /\ loadedVersions.some
       /\ \E target_version \in SnapshotVersions(loadedVersions.val),
             feature_name \in FeatureNames :
                CallSupportFeature(target_version, feature_name)

SpecFeature == InitFeature /\ [][NextFeature]_vars

\* -------------------------------------------------------------- index_blocks

\* 2^28: a u32 below it keeps all its bits under << 4.
U28 == 268435456

\* block.id << 4 on a u32: the four high bits are shifted out, the rest is
\* multiplied by 16.
Shl4(id) == (id % U28) * 16

\* The states of a synthesized range after its first.
SYNTH_SPAN == 15

\* A Block of blocks.json.
Block(id, name, min_state_id, max_state_id, default_state) ==
    [id |-> id, name |-> name, min_state_id |-> min_state_id,
     max_state_id |-> max_state_id, default_state |-> default_state]

\* processed_block without the assignment of default_state.
ProcessBlock_KeepDefault(block) ==
    IF block.id # 0 /\ block.min_state_id = 0 /\ block.max_state_id = 0
    THEN Block(block.id, block.name, Shl4(block.id),
               Shl4(block.id) + SYNTH_SPAN, block.default_state)
    ELSE block

\* processed_block: a block with an id and both state ids 0 gets the range
\* of sixteen states at id << 4, and its first state as the default.
ProcessBlock(block) ==
    IF block.id # 0 /\ block.min_state_id = 0 /\ block.max_state_id = 0
    THEN Block(block.id, block.name, Shl4(block.id),
               Shl4(block.id) + SYNTH_SPAN, Shl4(block.id))
    ELSE block

\* HashMap::entry(state_id).or_insert(..) for the range of a block: a state
\* id that has a block keeps it.
InsertStates_KeepFirst(acc, b) ==
    [x \in DOMAIN acc \cup (b.min_state_id..b.max_state_id) |->
        IF x \in DOMAIN acc THEN acc[x] ELSE b]

\* for state_id in min..=max { blocks_by_state_id.insert(state_id, block) }
InsertStates(acc, b) ==
    [x \in DOMAIN acc \cup (b.min_state_id..b.max_state_id) |->
        IF x \in b.min_state_id..b.max_state_id THEN b ELSE acc[x]]

\* The loop over the blocks, from block i on: the processed blocks and
\* blocks_by_state_id.
RECURSIVE ProcessBlocksFrom(_, _, _)
ProcessBlocksFrom(blocks, i, acc) ==
    IF i > Len(blocks) THEN acc
    ELSE LET processed_block == ProcessBlock(blocks[i])
         IN  ProcessBlocksFrom(blocks, i + 1,
                [calculated |-> Append(acc.calculated, processed_block),
                 by_state_id |-> InsertStates(acc.by_state_id, processed_block)])

\* index_by_field!: collect() of (key, item) pairs from item i on, a later
\* item replacing an earlier one under the same key.
RECURSIVE IndexByField(_, _, _, _)
IndexByField(data, field, i, acc) ==
    IF i > Len(data) THEN acc
    ELSE IndexByField(data, field, i + 1, MapInsert(acc, data[i][field], data[i]))

index_blocks(blocks) ==
    LET done == ProcessBlocksFrom(blocks, 1,
                    [calculated |-> <<>>, by_state_id |-> EmptyMap])
    IN  [blocks_by_id |-> IndexByField(done.calculated, "id", 1, EmptyMap),
         blocks_by_name |-> IndexByField(done.calculated, "name", 1, EmptyMap),
         blocks_by_state_id |-> done.by_state_id]

\* The blocks of a blocks.json: ids with and without state ids, an id whose
\* shift wraps, ranges that overlap, touch the synthesized range of id 1, or
\* are empty.
BlockIds == {0, 1, 2, U28}

BlockRanges == {<<0, 0>>, <<1, 2>>, <<2, 3>>, <<16, 17>>, <<3, 1>>}

Blocks ==
    {Block(id, name, r[1], r[2], r[1]) :
        id \in BlockIds, name \in {"a", "b"}, r \in BlockRanges}

\* The longest blocks.json.
MaxBlocks == 2

BlockLists == UNION {[1..n -> Blocks] : n \in 0..MaxBlocks}

CallIndexBlocks(blocks) ==
    /\ last = NoCall
    /\ last' = [op |-> "index_blocks", blocks |-> blocks,
                result |-> index_blocks(blocks)]
    /\ UNCHANGED <<rawVersions, faultsLeft, featVars, threadVars, rootVars,
                   sharedVars>>

InitBlocks ==
    /\ rawVersions = [e \in Editions |->
                        IF e = Pc THEN RawListPc ELSE RawListBedrock]
    /\ loadedVersions = None
    /\ last = NoCall
    /\ ProcessStart
    /\ disk = {}
    /\ faultsLeft = 0

NextBlocks == \E blocks \in BlockLists : CallIndexBlocks(blocks)

SpecBlocks == InitBlocks /\ [][NextBlocks]_vars

\* -------------------------------------------------------- index_block_shapes

\* u32::to_string() of a shape index: its decimal numeral.
to_string(n) == CASE n = 0 -> "0" [] n = 1 -> "1" [] n = 2 -> "2" [] OTHER -> "3"

\* BlockShapeRef: one index for every state, or one index per state.
Single(index) == [kind |-> "Single", index |-> index]

Multiple(indices) == [kind |-> "Multiple", indices |-> indices]

\* shape_index_result with the offset left out: the array is indexed by the
\* state id.
ShapeIndexResult_ByStateId(shape_ref, state_id, block) ==
    IF shape_ref.kind = "Single" THEN Some(shape_ref.index)
    ELSE IF state_id + 1 \in 1..Len(shape_ref.indices)
         THEN Some(shape_ref.indices[state_id + 1])
         ELSE None

\* shape_index_result: the index of a Single; for a Multiple the element at
\* state_id.checked_sub(block.min_state_id), when both exist.
ShapeIndexResult(shape_ref, state_id, block) ==
    IF shape_ref.kind = "Single" THEN Some(shape_ref.index)
    ELSE IF state_id < block.min_state_id THEN None
    ELSE LET offset == state_id - block.min_state_id
         IN  IF offset + 1 \in 1..Len(shape_ref.indices)
             THEN Some(shape_ref.indices[offset + 1])
             ELSE None

\* One pass of the loop over blocks_by_state_id: the shape to insert for the
\* state id, or None.
ShapeOfState(collision_data, state_id, block) ==
    IF block.name \notin DOMAIN collision_data.blocks THEN None
    ELSE LET shape_index_result ==
                ShapeIndexResult(collision_data.blocks[block.name], state_id, block)
         IN  IF ~shape_index_result.some THEN None
             ELSE IF shape_index_result.val = 0 THEN None
             ELSE IF to_string(shape_index_result.val) \in DOMAIN collision_data.shapes
             THEN Some(collision_data.shapes[to_string(shape_index_result.val)])
             ELSE None

index_block_shapes(blocks_by_state_id, blocks_by_name, collision_data) ==
    LET shapes_by_state_id ==
            [state_id \in {x \in DOMAIN blocks_by_state_id :
                            ShapeOfState(collision_data, x, blocks_by_state_id[x]).some}
                |-> ShapeOfState(collision_data, state_id,
                                 blocks_by_state_id[state_id]).val]
        shapes_by_name ==
            [name \in {n \in DOMAIN blocks_by_name :
                            blocks_by_name[n].default_state \in DOMAIN shapes_by_state_id}
                |-> shapes_by_state_id[blocks_by_name[name].default_state]]
    IN  [block_shapes_by_state_id |-> shapes_by_state_id,
         block_shapes_by_name |-> shapes_by_name]

\* The blocks of the blocks.json the shapes are indexed for: with and without
\* state ids, and with either end of the range as the default state.
ShapeBlocks ==
    {Block(id, name, r[1], r[2], d) :
        id \in {0, 1}, name \in {"a", "b"}, r \in {<<0, 0>>, <<1, 2>>},
        d \in {0, 1, 2}}

ShapeBlockLists ==
    {l \in UNION {[1..n -> ShapeBlocks] : n \in 0..MaxBlocks} :
        \A i \in 1..Len(l) :
            l[i].default_state \in {l[i].min_state_id, l[i].max_state_id}}

\* The blockCollisionShapes.json files: a block without a reference, with one
\* index, with an array shorter than its range, with index 0, and shapes
\* tables with and without the keys.
ShapeRefs ==
    {Single(0), Single(1), Single(2), Multiple(<<0, 1>>), Multiple(<<2>>)}

CollisionData ==
    {[blocks |-> b, shapes |-> t] :
        b \in UNION {[names -> ShapeRefs] : names \in SUBSET {"a", "b"}},
        t \in {EmptyMap,
                [k \in {"1"} |-> <<"cube">>],
                [k \in {"0", "1", "2"} |->
                    IF k = "0" THEN <<>> ELSE IF k = "1" THEN <<"cube">>
                                         ELSE <<"slab">>]}}

\* IndexedData::load indexes the blocks and then their shapes.
CallIndexBlockShapes(blocks, collision_data) ==
    /\ last = NoCall
    /\ LET indexed == index_blocks(blocks)
       IN  last' = [op |-> "index_block_shapes", indexed |-> indexed,
                    collision_data |-> collision_data,
                    result |-> index_block_shapes(indexed.blocks_by_state_id,
                                                  indexed.blocks_by_name,
                                                  collision_data)]
    /\ UNCHANGED <<rawVersions, faultsLeft, featVars, threadVars, rootVars,
                   sharedVars>>

NextShapes ==
    \E blocks \in ShapeBlockLists, collision_data \in CollisionData :
        CallIndexBlockShapes(blocks, collision_data)

SpecShapes == InitBlocks /\ [][NextShapes]_vars

\* --------------------------------------------------------------------- claims

OrderingValues == {Less, Equal, Greater}

\* C5: comparing two Versions of different editions through partial_cmp or cmp
\* never yields an ordering result (Equal included): partial_cmp gives None and
\* cmp gives none of Less, Equal, Greater.
C5_CrossEditionCmpSignalsFailure ==
    (last.op = "cmp" /\ last.a.edition # last.b.edition)
        => (last.partial = None /\ last.total \notin OrderingValues)

\* C6: for a snapshot of version v1 and a string that resolves to v2,
\* is_older_than is Ok(v1.dataVersion < v2.dataVersion) and
\* is_newer_or_equal_to is Ok(v1.dataVersion >= v2.dataVersion) when the
\* editions agree, and both are an Internal error when they differ.
C6_ComparisonMethods ==
    (last.op \in {"is_older_than", "is_newer_or_equal_to"}
     /\ resolve_version(loadedVersions.val, last.arg).ok)
        => LET v1 == last.self
               v2 == resolve_version(loadedVersions.val, last.arg).val
           IN  IF v1.edition = v2.edition
               THEN last.result =
                        Ok(IF last.op = "is_older_than"
                           THEN v1.data_version < v2.data_version
                           ELSE v1.data_version >= v2.data_version)
               ELSE ~last.result.ok /\ last.result.kind = "Internal"

\* A snapshot strictly older than another version of its edition was compared.
C6_Witness ==
    /\ last.op = "is_older_than"
    /\ last.result = Ok(TRUE)
    /\ last.self.edition = Pc
    /\ last.self.data_version <= 0

\* The number of raw entries of the PC list that satisfy a test.
CountPc(Test(_)) ==
    Cardinality({i \in 1..Len(rawVersions[Pc]) : Test(rawVersions[Pc][i])})

\* C7 as stated: resolve_version(resolve_version(s).minecraft_version)
\* succeeds and returns the Version resolve_version(s) returned.
C7_ResolveIdempotent ==
    last.op = "resolve_again" => last.result = Ok(last.first)

\* C7 amended: for a PC result v the second resolution succeeds with a PC
\* Version whose minecraftVersion or majorVersion is v.minecraft_version, and
\* with v itself when that string names one raw entry and is the majorVersion
\* of no other; a Bedrock result fed back unprefixed never gives v.
C7_ResolveIdempotentAmended ==
    last.op = "resolve_again" =>
        LET v == last.first
            X == v.minecraft_version
            IsX(e) == e.minecraft_version = X
            OtherMajorX(e) == e.major_version = X /\ e.minecraft_version # X
        IN  /\ v.edition = Pc =>
                /\ last.result.ok
                /\ last.result.val.edition = Pc
                /\ \/ last.result.val.minecraft_version = X
                   \/ last.result.val.major_version = X
            /\ (v.edition = Pc /\ CountPc(IsX) = 1 /\ CountPc(OtherMajorX) = 0)
                    => last.result = Ok(v)
            /\ v.edition = Bedrock => last.result # Ok(v)

\* A protocol number resolved to a PC Version whose name resolved back to it.
C7_Witness ==
    /\ last.op = "resolve_again"
    /\ last.arg = <<"5">>
    /\ last.first.edition = Pc
    /\ last.result = Ok(last.first)
    /\ Len(rawVersions[Pc]) = 2

\* The Versions of major series M in an edition's registry.
Series(vd, M) == {vd.by_major_version[M][i] : i \in 1..Len(vd.by_major_version[M])}

\* C8: for every major-version string M of the raw list, by_minecraft_version[M]
\* (and resolve_version(M)) is the entry of series M with the highest
\* dataVersion among its releases if it has any, else among all its entries.
C8_MajorKeyIsNewestRelease ==
    loadedVersions.some =>
        LET vd == loadedVersions.val[Pc].val
        IN  \A M \in DOMAIN vd.by_major_version :
                LET got == vd.by_minecraft_version[M]
                    rel == {x \in Series(vd, M) : x.release_type = RELEASE}
                    among == IF rel # {} THEN rel ELSE Series(vd, M)
                IN  /\ got \in among
                    /\ \A x \in among : x.data_version <= got.data_version
                    /\ resolve_version(loadedVersions.val, M) = Ok(got)

\* The threads inside download_and_extract.
Downloading == {t \in Threads : pc[t] \in DownloadLabels}

\* C2: whatever the number of get_data_root calls and the outcome of the
\* fetch, download_and_extract is started at most once.
C2_DownloadStartedAtMostOnce == downloadsStarted <= 1

\* C2 as amended: at most one download runs at a time, a download is started
\* again only after every earlier one failed, and none is started or running
\* once DATA_PATH is set.
C2_DownloadRestartedOnlyAfterFailure ==
    /\ Cardinality(Downloading) <= 1
    /\ downloadsStarted <= downloadsFailed + 1
    /\ dataPath.val.some => Downloading = {}

\* A second download ran after the first failed, and get_data_root returned
\* Ok to its caller.
C2_Witness ==
    /\ downloadsStarted = 2
    /\ downloadsFailed = 1
    /\ \E t \in Threads : pc[t] = "done" /\ ret[t] = Some(Ok(DATA_DIR))

\* The snapshots mc_data has returned to a thread: the result of a finished
\* call, or the snapshot the thread went on to call support_feature on.
Returned(t) ==
    IF call[t].op = "mc_data" /\ pc[t] = "done" /\ ret[t].val.ok
      THEN {ret[t].val.val}
    ELSE IF call[t].op = "support_feature" THEN {call[t].self}
    ELSE {}

\* C1: any two mc_data calls that return Ok for the same canonical key return
\* the same snapshot instance, also when both missed the cache and loaded.
C1_SameKeySameSnapshot ==
    \A t, u \in Threads : \A a \in Returned(t), b \in Returned(u) :
        cache_key(a.version) = cache_key(b.version) => a = b

\* Two threads missed the cache for one key and both loaded; the snapshot of
\* one was inserted and returned to both, the other's was dropped.
C1_Witness ==
    \E t, u \in Threads :
        /\ t # u
        /\ Returned(t) # {}
        /\ Returned(t) = Returned(u)
        /\ loc[t].arc.some
        /\ loc[u].arc.some
        /\ loc[t].arc # loc[u].arc
        /\ pc[t] = "done"
        /\ pc[u] = "done"

\* A thread is inside IndexedData::load, its nested get_data_root included.
InLoad(t) ==
    \/ pc[t] \in LoadLabels
    \/ \E i \in 1..Len(stack[t]) : stack[t][i] = "dp_root"

\* C3: of the threads that call mc_data for one key that is not cached, at
\* most one executes IndexedData::load.
C3_AtMostOneLoadPerKey ==
    \A t, u \in Threads :
        (t # u /\ InLoad(t) /\ InLoad(u)) => loc[t].key # loc[u].key

\* C3 as amended: every thread that missed the cache loads by itself, at
\* most one loaded snapshot per key is in the cache, and a call that loaded
\* returns the cached one, its own only when it is the one inserted.
C3_OneLoadedSnapshotKept ==
    \A t \in Threads :
        (loc[t].arc.some /\ Returned(t) # {}) =>
            LET own == loc[t].arc.val
                key == cache_key(own.version)
            IN  /\ key \in DOMAIN dataCache.map
                /\ Returned(t) = {dataCache.map[key]}
                /\ dataCache.map[key].by \in Threads
                /\ loc[dataCache.map[key].by].arc = Some(dataCache.map[key])

\* Two threads have loaded the same key, one has inserted its snapshot and
\* the other is about to find it under the write lock.
C3_Witness ==
    \E t, u \in Threads :
        /\ t # u
        /\ pc[t] = "done"
        /\ loc[t].arc.some
        /\ Returned(t) = {loc[t].arc.val}
        /\ pc[u] = "md_wcheck"
        /\ loc[u].key = cache_key(loc[t].arc.val.version)

\* The places where a thread reads or writes files, uses the network, or
\* parses an archive or JSON.
IoLabels ==
    InitializerLabels \cup {"gv_io", "dp_io", "ld_io", "ld_legacy", "ft_io"}

HoldsDataCache(t) == t \in dataCache.readers \/ dataCache.writer = t

HoldsResolvedCache(t) == t \in resolvedCache.readers \/ resolvedCache.writer = t

\* C4: a thread that performs I/O or parsing holds none of DOWNLOAD_LOCK, the
\* DATA_CACHE lock and the RESOLVED_VERSION_CACHE lock, and the DATA_CACHE
\* write lock is held only around the final re-check and insert.
C4_NoLockAcrossIo ==
    \A t \in Threads :
        /\ pc[t] \in IoLabels =>
                /\ downloadLock # t
                /\ ~HoldsDataCache(t)
                /\ ~HoldsResolvedCache(t)
        /\ dataCache.writer = t => pc[t] = "md_wcheck"

\* C4 as amended: a thread that performs I/O or parsing holds neither the
\* DATA_CACHE lock nor the RESOLVED_VERSION_CACHE lock; DOWNLOAD_LOCK is held
\* exactly by the thread inside get_data_root's initializer, disk check,
\* download and extraction included; the locks of the two caches are held
\* only around their lookups and inserts.
C4_NoCacheLockAcrossIo ==
    \A t \in Threads :
        /\ pc[t] \in IoLabels => (~HoldsDataCache(t) /\ ~HoldsResolvedCache(t))
        /\ downloadLock = t <=> pc[t] \in InitializerLabels
        /\ dataCache.writer = t <=> pc[t] = "md_wcheck"
        /\ t \in dataCache.readers <=> pc[t] = "md_rcheck"
        /\ resolvedCache.writer = t <=> pc[t] = "rc_insert"
        /\ t \in resolvedCache.readers <=> pc[t] = "rc_rcheck"

\* A thread reads a data file holding no lock while another holds the write
\* lock of DATA_CACHE for its insert.
C4_Witness ==
    \E t, u \in Threads :
        /\ pc[t] = "ld_io"
        /\ pc[u] = "md_wcheck"
        /\ dataCache.writer = u
        /\ ~HoldsDataCache(t)

\* C9: when the unprefixed s resolves for PC, "pc_" + s resolves to the same
\* Version, and mc_data(s) and mc_data("pc_" + s) return the same snapshot.
C9_PcPrefixSameSnapshot ==
    /\ loadedVersions.some =>
            \A s \in VersionParts :
                resolve_version(loadedVersions.val, s).ok =>
                    resolve_version(loadedVersions.val, <<PC_PREFIX>> \o s)
                        = resolve_version(loadedVersions.val, s)
    /\ \A t, u \in Threads :
        LET s == call[t].arg
            ps == <<PC_PREFIX>> \o s
        IN  (/\ call[t].op = "mc_data"
             /\ call[u].op = "mc_data"
             /\ call[u].arg = ps
             /\ loadedVersions.some
             /\ resolve_version(loadedVersions.val, s).ok)
            => /\ resolve_version(loadedVersions.val, ps)
                    = resolve_version(loadedVersions.val, s)
               /\ (pc[u] = "done" /\ ~ret[u].val.ok)
                    => ret[u].val.kind # "InvalidVersion"
               /\ \A a \in Returned(t), b \in Returned(u) : a = b

\* mc_data("1.18") and mc_data("pc_1.18") have both returned a snapshot.
C9_Witness ==
    \E t, u \in Threads :
        /\ call[t] = [op |-> "mc_data", arg |-> V118]
        /\ call[u] = [op |-> "mc_data", arg |-> <<PC_PREFIX>> \o V118]
        /\ Returned(t) # {}
        /\ Returned(u) # {}

\* C10: an error that arises while a call is served and is not one of the
\* recovered ones reaches the caller with the kind it was raised with.
C10_ErrorKindPreserved ==
    \A t \in Threads :
        (pc[t] = "done" /\ raised[t] # {}) =>
            (~ret[t].val.ok /\ ret[t].val.kind \in raised[t])

\* C11: a call that observes a memoized initialization failure of the
\* dataPaths.json memo, of the version registry of its edition or of the
\* features of its edition returns CachedError with the message of the
\* original failure.
C11_MemoizedFailureIsCachedError ==
    \A t \in Threads :
        pc[t] = "done" =>
            /\ (ret[t].val.ok = FALSE /\ ret[t].val.kind = "CachedError")
                    => (/\ dataPaths.val.some
                        /\ ~dataPaths.val.val.ok
                        /\ ret[t].val.arg = dataPaths.val.val.kind)
            /\ (/\ call[t].op = "mc_data"
                /\ loadedVersions.some
                /\ ~loadedVersions.val[parse_version_string(call[t].arg).edition].ok)
                    => ret[t].val =
                        Err("CachedError",
                            loadedVersions.val[
                                parse_version_string(call[t].arg).edition].kind)
            /\ (/\ call[t].op = "support_feature"
                /\ features.val.some
                /\ ~features.val.val[call[t].self.version.edition].ok)
                    => ret[t].val =
                        Err("CachedError",
                            features.val.val[call[t].self.version.edition].kind)

\* C12: the call that performs the failing read or parse of dataPaths.json
\* returns the failure in its own kind, IoError or JsonParseError; CachedError
\* is returned only by calls that find the failure already stored.
C12_FreshFailureKeepsItsKind ==
    [][\A t \in Threads :
        (pc[t] = "dp_done" /\ ~dataPaths.val.val.ok /\ pc'[t] = "done")
            => (/\ ~ret'[t].val.ok
                /\ ret'[t].val.kind = dataPaths.val.val.kind
                /\ ret'[t].val.kind \in ReadErrors)]_vars

\* C13: whenever no extraction is running, a data directory that holds the
\* sentinel dataPaths.json holds every entry of the archive that lies under
\* the data prefix; so does the tree that get_data_root accepted.
C13_SentinelAttestsCompleteTree ==
    /\ ((\A t \in Threads : pc[t] \notin InitializerLabels) /\ SENTINEL \in disk)
            => FullDisk \subseteq disk
    /\ dataPath.val.some => FullDisk \subseteq disk

\* The version part names nothing in the registry: it is no key of
\* by_minecraft_version, no protocol number and no key of by_major_version.
Unresolvable(vd, part) ==
    /\ part \notin DOMAIN vd.by_minecraft_version
    /\ ~(ParseI32(part).some /\ ParseI32(part).val \in DOMAIN vd.by_protocol_version)
    /\ part \notin DOMAIN vd.by_major_version

\* The string selects an edition whose registry is loaded and names nothing in it.
NamesNothing(cell, s) ==
    LET p == parse_version_string(s)
    IN  /\ cell[p.edition].ok
        /\ Unresolvable(cell[p.edition].val, p.version_part)

\* C14: for a string whose version part the registry of the selected edition
\* does not know, resolve_version and mc_data fail with InvalidVersion that
\* carries the whole string as it was passed, and the call takes no lock of
\* the snapshot cache and inserts nothing in it.
C14_InvalidVersionCarriesInput ==
    loadedVersions.some =>
        /\ \A s \in VersionStrings :
                NamesNothing(loadedVersions.val, s)
                    => resolve_version(loadedVersions.val, s) = Err("InvalidVersion", s)
        /\ \A t \in Threads :
                (call[t].op = "mc_data" /\ NamesNothing(loadedVersions.val, call[t].arg))
                    => /\ pc[t] = "done"
                            => ret[t] = Some(Err("InvalidVersion", call[t].arg))
                       /\ ~HoldsDataCache(t)
                       /\ pc[t] \notin LoadLabels \cup {"md_rlock", "md_wlock"}
                       /\ \A k \in DOMAIN dataCache.map : dataCache.map[k].by # t

\* mc_data("zz") has failed with InvalidVersion("zz") while the cache holds
\* the snapshot another call inserted.
C14_Witness ==
    \E t \in Threads :
        /\ call[t] = [op |-> "mc_data", arg |-> <<"zz">>]
        /\ pc[t] = "done"
        /\ ret[t] = Some(Err("InvalidVersion", <<"zz">>))
        /\ DOMAIN dataCache.map # {}

\* The Versions made of the raw entries of an edition that carry protocol p,
\* with the dataVersion they have after synthesis.
EntriesOfProtocol(edition, p) ==
    LET sorted == AssignDataVersions(SortByProtocolDesc(rawVersions[edition]))
    IN  {MakeVersion(sorted[i], edition) :
            i \in {j \in 1..Len(sorted) : sorted[j].version = p}}

\* C15: a version part that the direct lookup does not resolve and that is
\* the number of a protocol with entries resolves to an entry of that protocol
\* with the highest dataVersion among its releases, or among all its entries
\* when none is a release.
C15_ProtocolNumberResolution ==
    last.op = "resolve_version" =>
        LET p == parse_version_string(last.arg)
            vd == loadedVersions.val[p.edition].val
            num == ParseI32(p.version_part)
            all == IF num.some THEN EntriesOfProtocol(p.edition, num.val) ELSE {}
            rel == {x \in all : x.release_type = RELEASE}
            among == IF rel # {} THEN rel ELSE all
        IN  (/\ p.version_part \notin DOMAIN vd.by_minecraft_version
             /\ num.some
             /\ all # {})
                => /\ last.result.ok
                   /\ last.result.val \in among
                   /\ \A x \in among : x.data_version <= last.result.val.data_version

\* Protocol 5 has a snapshot that is newer than its release, and "5" resolved
\* to the release.
C15_Witness ==
    /\ last.op = "resolve_version"
    /\ last.arg = <<"5">>
    /\ last.result.ok
    /\ last.result.val.release_type = RELEASE
    /\ \E x \in EntriesOfProtocol(Pc, 5) :
            /\ x.release_type # RELEASE
            /\ x.data_version > last.result.val.data_version

\* The dataVersion of the Version that by_minecraft_version holds under a name.
Named_dv(edition, name) ==
    loadedVersions.val[edition].val.by_minecraft_version[name].data_version

\* C16: the list supported_versions returns is ordered oldest to newest: of
\* two returned strings the earlier one names a Version whose dataVersion is
\* less than or equal to that of the later one.
C16_SupportedVersionsOldestFirst ==
    last.op = "supported_versions" =>
        LET r == last.result.val
        IN  \A i, j \in 1..Len(r) :
                i < j => Named_dv(last.edition, r[i]) <= Named_dv(last.edition, r[j])

\* C17: supported_versions returns every minecraftVersion of the raw list of
\* the edition that contains a dot, each exactly once, and nothing else.
C17_SupportedVersionsExactlyOnce ==
    last.op = "supported_versions" =>
        LET r == last.result.val
            raw == rawVersions[last.edition]
        IN  /\ \A i, j \in 1..Len(r) : r[i] = r[j] => i = j
            /\ {r[i] : i \in 1..Len(r)}
                    = {raw[i].minecraft_version :
                        i \in {j \in 1..Len(raw) :
                                Contains(raw[j].minecraft_version, DOT)}}

\* The Versions made of the raw entries of an edition, with the dataVersion
\* they have after synthesis.
EntriesOf(edition) ==
    LET sorted == AssignDataVersions(SortByProtocolDesc(rawVersions[edition]))
    IN  {MakeVersion(sorted[i], edition) : i \in 1..Len(sorted)}

\* The dataVersions among which a range endpoint is chosen: those of series
\* X for "X_major", of the whole edition for "latest", and of the Version the
\* string resolves to, when it resolves to the edition, for any other string.
EndpointDataVersions(edition, str) ==
    LET base == StripSuffix(str, MAJOR_SUFFIX)
        r == resolve_version(loadedVersions.val, str)
    IN  IF str = LATEST
        THEN {x.data_version : x \in EntriesOf(edition)}
        ELSE IF base.some
        THEN {x.data_version : x \in {y \in EntriesOf(edition) :
                                        y.major_version = base.val}}
        ELSE IF r.ok /\ r.val.edition = edition THEN {r.val.data_version} ELSE {}

InRange(x) ==
    LET r == RangeCheck(loadedVersions.val, last.self, x)
    IN  r.ok /\ r.val

Unresolved(x) == ~RangeCheck(loadedVersions.val, last.self, x).ok

Processed == [i \in 1..Len(last.blocks) |-> ProcessBlock(last.blocks[i])]

\* The state ids of a block.
StatesOf(b) == b.min_state_id..b.max_state_id

\* The blocks the result holds in blocks_by_id and blocks_by_name.
BlocksOfResult ==
    {last.result.blocks_by_id[k] : k \in DOMAIN last.result.blocks_by_id}
    \cup {last.result.blocks_by_name[k] : k \in DOMAIN last.result.blocks_by_name}

\* C20 as stated: every state id in the range of a block of the result maps
\* to that block, with the id and name blocks_by_name has for its name.
C20_StateIdsMapToTheirBlock ==
    last.op = "index_blocks" =>
        \A b \in BlocksOfResult : \A s \in StatesOf(b) :
            /\ s \in DOMAIN last.result.blocks_by_state_id
            /\ last.result.blocks_by_state_id[s].id = b.id
            /\ last.result.blocks_by_state_id[s].name = b.name
            /\ last.result.blocks_by_name[b.name].id = b.id

\* C20, amended: every state id in the range of a block of the list (after
\* state-id synthesis) maps to the last block of the list whose range
\* contains it, and so to the block itself when no later block's range
\* contains the state id.
C20_StateIdsMapToLastBlockInRange ==
    last.op = "index_blocks" =>
        \A i \in 1..Len(last.blocks) : \A s \in StatesOf(Processed[i]) :
            /\ s \in DOMAIN last.result.blocks_by_state_id
            /\ \E j \in i..Len(last.blocks) :
                /\ s \in StatesOf(Processed[j])
                /\ \A k \in (j + 1)..Len(last.blocks) : s \notin StatesOf(Processed[k])
                /\ last.result.blocks_by_state_id[s] = Processed[j]
            /\ (\A k \in (i + 1)..Len(last.blocks) : s \notin StatesOf(Processed[k]))
                => last.result.blocks_by_state_id[s] = Processed[i]

\* A block without state ids got its synthesized range, a later block with
\* another name has a state id in that range, and the state id maps to the
\* later block.
C20_Witness ==
    /\ last.op = "index_blocks"
    /\ Len(last.blocks) = 2
    /\ last.blocks[1].id = 1
    /\ last.blocks[1].min_state_id = 0
    /\ last.blocks[1].max_state_id = 0
    /\ Processed[1].min_state_id = 16
    /\ last.blocks[2].name # last.blocks[1].name
    /\ 16 \in StatesOf(Processed[2])
    /\ 18 \notin StatesOf(Processed[2])
    /\ last.result.blocks_by_state_id[16] = Processed[2]
    /\ last.result.blocks_by_state_id[18] = Processed[1]

\* The shape index a state id has in blockCollisionShapes.json: the integer
\* of the reference of its block, or element s - minStateId of its array.
IndexFor(s) ==
    LET block == last.indexed.blocks_by_state_id[s]
        refs == last.collision_data.blocks
    IN  IF block.name \notin DOMAIN refs THEN None
        ELSE IF refs[block.name].kind = "Single" THEN Some(refs[block.name].index)
        ELSE IF \E k \in 1..Len(refs[block.name].indices) : k - 1 = s - block.min_state_id
        THEN Some(refs[block.name].indices[s - block.min_state_id + 1])
        ELSE None

\* C21: block_shapes_by_state_id has an entry for s exactly when the shape
\* index of s exists, is not 0 and is a key of the shapes table, and the
\* entry is the shape under that key; block_shapes_by_name has an entry for
\* a name exactly when block_shapes_by_state_id has one for the default
\* state of the block of that name, with the same value.
C21_ShapesFollowIndex ==
    last.op = "index_block_shapes" =>
        LET by_state == last.result.block_shapes_by_state_id
            by_name == last.result.block_shapes_by_name
            shapes == last.collision_data.shapes
        IN  /\ DOMAIN by_state \subseteq DOMAIN last.indexed.blocks_by_state_id
            /\ \A s \in DOMAIN last.indexed.blocks_by_state_id :
                /\ s \in DOMAIN by_state <=>
                        /\ IndexFor(s).some
                        /\ IndexFor(s).val # 0
                        /\ to_string(IndexFor(s).val) \in DOMAIN shapes
                /\ s \in DOMAIN by_state =>
                        by_state[s] = shapes[to_string(IndexFor(s).val)]
            /\ DOMAIN by_name \subseteq DOMAIN last.indexed.blocks_by_name
            /\ \A n \in DOMAIN last.indexed.blocks_by_name :
                LET d == last.indexed.blocks_by_name[n].default_state
                IN  /\ n \in DOMAIN by_name <=> d \in DOMAIN by_state
                    /\ n \in DOMAIN by_name => by_name[n] = by_state[d]

\* A block with two states and an array reference: the first state has
\* index 0 and no entry although the table has the key "0", the second has
\* the shape of its index, and the name has the shape of its default state.
C21_Witness ==
    /\ last.op = "index_block_shapes"
    /\ 1 \in DOMAIN last.indexed.blocks_by_state_id
    /\ 2 \in DOMAIN last.indexed.blocks_by_state_id
    /\ last.indexed.blocks_by_state_id[2].name = "a"
    /\ last.indexed.blocks_by_state_id[2].default_state = 2
    /\ "a" \in DOMAIN last.indexed.blocks_by_name
    /\ last.indexed.blocks_by_name["a"] = last.indexed.blocks_by_state_id[2]
    /\ "a" \in DOMAIN last.collision_data.blocks
    /\ last.collision_data.blocks["a"] = Multiple(<<0, 1>>)
    /\ "0" \in DOMAIN last.collision_data.shapes
    /\ 1 \notin DOMAIN last.result.block_shapes_by_state_id
    /\ 2 \in DOMAIN last.result.block_shapes_by_state_id
    /\ last.result.block_shapes_by_state_id[2] = <<"cube">>
    /\ "a" \in DOMAIN last.result.block_shapes_by_name
    /\ last.result.block_shapes_by_name["a"] = <<"cube">>

\* mc_data of thread t returns an error of one of these kinds in this step,
\* and the cache is as before.
Aborts(t, kinds) ==
    /\ pc'[t] = "done"
    /\ ~ret'[t].val.ok
    /\ ret'[t].val.kind \in kinds
    /\ dataCache' = dataCache

\* The load of thread t goes on with the next key, or with legacy.json after
\* the last.
Continues(t) ==
    /\ pc'[t] = IF loc[t].k < Len(DataKeys) THEN "ld_key" ELSE "ld_legacy"
    /\ loc'[t].k = loc[t].k + 1
    /\ ret'[t] = None

\* Thread t has the Result of load_data for its key in this step: of the
\* path lookup in a set LOADED_DATA_PATHS, or of reading the file.
PathLookup(t) ==
    /\ pc[t] \in {"ld_key", "dp_done"}
    /\ dataPaths.val.some
    /\ <<pc[t], loc[t]>> # <<pc'[t], loc'[t]>>

FileRead(t) ==
    /\ pc[t] = "ld_io"
    /\ <<pc[t], loc[t]>> # <<pc'[t], loc'[t]>>

\* C22: in IndexedData::load a DataPathNotFound or DataFileNotFound on an
\* optional key gives None and the load goes on; any other error on an
\* optional key and every error on blocks and items ends the load, is what
\* mc_data returns, and leaves the cache without a snapshot of this call.
C22_OnlyNotFoundOnOptionalKeysIsIgnored ==
    [][\A t \in Threads :
        LET optional == DataKeys[loc[t].k] \notin RequiredKeys
        IN  /\ (PathLookup(t) /\ ~dataPaths.val.val.ok) => Aborts(t, {"CachedError"})
            /\ (PathLookup(t) /\ dataPaths.val.val.ok
                    /\ DataKeys[loc[t].k] \notin dataPaths.val.val.val) =>
                        IF optional THEN Continues(t)
                        ELSE Aborts(t, {"DataPathNotFound"})
            /\ (FileRead(t) /\ faultsLeft' # faultsLeft) => Aborts(t, ReadErrors)
            /\ (FileRead(t) /\ faultsLeft' = faultsLeft) =>
                    \/ Continues(t)
                    \/ ~optional /\ Aborts(t, {"DataFileNotFound"})
            /\ (pc[t] \in LoadLabels /\ pc'[t] = "done") =>
                    /\ Aborts(t, {"CachedError", "DataPathNotFound",
                                  "DataFileNotFound", "DownloadError",
                                  "ArchiveError", "Internal"} \cup ReadErrors)
                    /\ optional => ret'[t].val.kind \notin NotFoundKinds]_vars

\* One thread is past "biomes", for which dataPaths.json has no path, and
\* another has returned the parse error of a data file: the registry and
\* dataPaths.json were parsed without an error.
C22_Witness ==
    \E t, u \in Threads :
        /\ pc[t] = "ld_key"
        /\ DataKeys[loc[t].k] = "recipes"
        /\ dataPaths.val.some
        /\ dataPaths.val.val.ok
        /\ "biomes" \notin dataPaths.val.val.val
        /\ pc[u] = "done"
        /\ call[u].op = "mc_data"
        /\ ~ret[u].val.ok
        /\ ret[u].val.kind = "JsonParseError"
        /\ loadedVersions.some
        /\ \A e \in Editions : loadedVersions.val[e].ok
        /\ dataCache.map = EmptyMap

\* C23: once get_data_root has returned Ok(p), the cell keeps p; a call that
\* enters get_data_root returns Ok(p) in one step, which neither reads the
\* disk nor downloads, whatever is left of the data tree; and nothing but
\* the removal changes the disk.
C23_MemoizedRootIgnoresDisk ==
    [][dataPath.val.some =>
        /\ dataPath'.val = dataPath.val
        /\ downloadsStarted' = downloadsStarted
        /\ \A t \in Threads :
            /\ pc'[t] \notin InitializerLabels \ {pc[t]}
            /\ (pc[t] = "gdr" /\ pc'[t] # "gdr") =>
                    /\ pc'[t] = Head(stack[t])
                    /\ loc'[t].root = Ok(dataPath.val.val)
            /\ (pc[t] = "root_done" /\ pc'[t] # "root_done" /\ loc[t].root.ok) =>
                    /\ ret'[t] = Some(Ok(dataPath.val.val))
                    /\ (ret[t].some /\ ret[t].val.ok) => ret'[t] = ret[t]
        /\ disk' # disk => pc' = pc]_vars

\* A thread whose first call found the data on disk and returned the path
\* has called again; the data tree is gone, nothing was downloaded, and the
\* second call has the same path.
C23_Witness ==
    \E t \in Threads :
        /\ pc[t] = "root_done"
        /\ ret[t].some
        /\ ret[t].val.ok
        /\ loc[t].root = ret[t].val
        /\ disk = {}
        /\ downloadsStarted = 0

\* The entries of an edition as the indexing loop processes them, and the
\* maps after the first i of them.
ProcessedEntries(edition) ==
    LET sorted == AssignDataVersions(SortByProtocolDesc(rawVersions[edition]))
    IN  [i \in 1..Len(sorted) |-> MakeVersion(sorted[i], edition)]

IndexedUpTo(edition, i) ==
    IndexAll([by_minecraft_version |-> EmptyMap, by_major_version |-> EmptyMap,
              by_protocol_version |-> EmptyMap],
             SubSeq(AssignDataVersions(SortByProtocolDesc(rawVersions[edition])),
                    1, i),
             edition)

\* The value and_modify finds under the major-version key of entry i: the
\* map already holds the entry under its own minecraftVersion.
FoundUnderMajor(edition, i) ==
    LET c == ProcessedEntries(edition)[i]
        m == MapInsert(IndexedUpTo(edition, i - 1).by_minecraft_version,
                       c.minecraft_version, c)
    IN  IF c.major_version \in DOMAIN m THEN Some(m[c.major_version]) ELSE None

StoredUnderMajor(edition, i) ==
    IndexedUpTo(edition, i).by_minecraft_version[
        ProcessedEntries(edition)[i].major_version]

\* C24 as stated: the value stored under the major-version key is replaced
\* by the candidate exactly when the candidate has the greater dataVersion,
\* whatever the release types.
C24_NewerCandidateReplaces ==
    (loadedVersions.some /\ last = NoCall) =>
        \A i \in 1..Len(rawVersions[Pc]) :
            LET c == ProcessedEntries(Pc)[i]
                e == FoundUnderMajor(Pc, i)
            IN  e.some =>
                    StoredUnderMajor(Pc, i) =
                        IF c.data_version > e.val.data_version THEN c ELSE e.val

\* C24, amended: the stored value is replaced by the candidate exactly when
\* the candidate has the greater dataVersion and either the candidate is a
\* release or the stored value is not one.
C24_NewerReleaseOrOverNonRelease ==
    (loadedVersions.some /\ last = NoCall) =>
        \A i \in 1..Len(rawVersions[Pc]) :
            LET c == ProcessedEntries(Pc)[i]
                e == FoundUnderMajor(Pc, i)
            IN  e.some =>
                    StoredUnderMajor(Pc, i) =
                        IF /\ c.data_version > e.val.data_version
                           /\ \/ c.release_type = RELEASE
                              \/ e.val.release_type # RELEASE
                        THEN c ELSE e.val

\* The registry is built from a list in which a snapshot with the greater
\* dataVersion meets a release stored under its major-version key, and the
\* release stays.
C24_Witness ==
    /\ loadedVersions.some
    /\ last = NoCall
    /\ \E i \in 1..Len(rawVersions[Pc]) :
        LET c == ProcessedEntries(Pc)[i]
            e == FoundUnderMajor(Pc, i)
        IN  /\ e.some
            /\ c.data_version > e.val.data_version
            /\ c.release_type # RELEASE
            /\ e.val.release_type = RELEASE
            /\ StoredUnderMajor(Pc, i) = e.val

\* The raw entries of the PC edition in the order of the synthesis loop,
\* before and after it.
SortedRaw == SortByProtocolDesc(rawVersions[Pc])

Synthesized == AssignDataVersions(SortedRaw)

\* C25: with positive dataVersions in the source, every entry gets a
\* dataVersion, so the "Missing dataVersion" error cannot arise; a source
\* value is kept; a synthesized value is <= 0 and below every source value,
\* no two synthesized values are equal, and of two entries without a source
\* value the one with the lower protocol version gets the smaller one. The
\* registry holds the entries with these values.
C25_SyntheticDataVersions ==
    (loadedVersions.some /\ last = NoCall) =>
        /\ \A i \in 1..Len(SortedRaw) :
            /\ Synthesized[i].data_version.some
            /\ SortedRaw[i].data_version.some => Synthesized[i] = SortedRaw[i]
            /\ ~SortedRaw[i].data_version.some =>
                /\ Synthesized[i].data_version.val <= 0
                /\ \A j \in 1..Len(SortedRaw) :
                    /\ SortedRaw[j].data_version.some =>
                            Synthesized[i].data_version.val
                                < SortedRaw[j].data_version.val
                    /\ (j # i /\ ~SortedRaw[j].data_version.some) =>
                        /\ Synthesized[i].data_version.val
                                # Synthesized[j].data_version.val
                        /\ SortedRaw[i].version < SortedRaw[j].version =>
                                Synthesized[i].data_version.val
                                    < Synthesized[j].data_version.val
        /\ loadedVersions.val[Pc].ok
        /\ \A M \in DOMAIN loadedVersions.val[Pc].val.by_major_version :
            \A k \in 1..Len(loadedVersions.val[Pc].val.by_major_version[M]) :
                \E i \in 1..Len(SortedRaw) :
                    loadedVersions.val[Pc].val.by_major_version[M][k]
                        = MakeVersion(Synthesized[i], Pc)

\* The registry is built from two entries without a dataVersion and with
\* different protocol versions.
C25_Witness ==
    /\ loadedVersions.some
    /\ last = NoCall
    /\ Len(SortedRaw) = 2
    /\ ~SortedRaw[1].data_version.some
    /\ ~SortedRaw[2].data_version.some
    /\ SortedRaw[1].version > SortedRaw[2].version
    /\ Synthesized[2].data_version.val < Synthesized[1].data_version.val

\* A block of blocks.json has an id and no state ids.
LacksStateIds(b) == b.id # 0 /\ b.min_state_id = 0 /\ b.max_state_id = 0

\* The block the result is to hold for a block of the list: with the state
\* ids id * 16 (in 32 bits) to id * 16 + 15 and the first as default when it
\* has none, else as it is.
WithStateIds(b) ==
    IF LacksStateIds(b)
    THEN [b EXCEPT !.min_state_id = (b.id % U28) * 16,
                   !.max_state_id = (b.id % U28) * 16 + 15,
                   !.default_state = (b.id % U28) * 16]
    ELSE b

\* C26: index_blocks gives a block with an id and no state ids the sixteen
\* state ids from id << 4 on and the first of them as default state, and
\* leaves the state fields of every other block as they are: the three maps
\* hold the blocks so. The ranges given to two blocks with different ids
\* below 2^28 are disjoint.
C26_SynthesizedStateIds ==
    last.op = "index_blocks" =>
        LET blocks == last.blocks
            later(i) == (i + 1)..Len(blocks)
        IN  \A i \in 1..Len(blocks) :
                LET b == WithStateIds(blocks[i])
                IN  /\ LacksStateIds(blocks[i]) =>
                            Cardinality(b.min_state_id..b.max_state_id) = 16
                    /\ (\A k \in later(i) : blocks[k].id # b.id) =>
                            last.result.blocks_by_id[b.id] = b
                    /\ (\A k \in later(i) : blocks[k].name # b.name) =>
                            last.result.blocks_by_name[b.name] = b
                    /\ \A s \in b.min_state_id..b.max_state_id :
                            (\A k \in later(i) :
                                s \notin WithStateIds(blocks[k]).min_state_id
                                            ..WithStateIds(blocks[k]).max_state_id)
                            => last.result.blocks_by_state_id[s] = b
                    /\ \A k \in 1..Len(blocks) :
                            (/\ LacksStateIds(blocks[i]) /\ LacksStateIds(blocks[k])
                             /\ blocks[i].id # blocks[k].id
                             /\ blocks[i].id < U28 /\ blocks[k].id < U28)
                            => (b.min_state_id..b.max_state_id)
                                \cap (WithStateIds(blocks[k]).min_state_id
                                        ..WithStateIds(blocks[k]).max_state_id) = {}

\* Two blocks with the ids 1 and 2 and no state ids got 16..31 and 32..47,
\* with 16 and 32 as default states.
C26_Witness ==
    /\ last.op = "index_blocks"
    /\ Len(last.blocks) = 2
    /\ LacksStateIds(last.blocks[1])
    /\ LacksStateIds(last.blocks[2])
    /\ last.blocks[1].id = 1
    /\ last.blocks[2].id = 2
    /\ last.result.blocks_by_id[1].min_state_id = 16
    /\ last.result.blocks_by_id[1].max_state_id = 31
    /\ last.result.blocks_by_id[1].default_state = 16
    /\ last.result.blocks_by_id[2].min_state_id = 32
    /\ last.result.blocks_by_id[2].max_state_id = 47
    /\ last.result.blocks_by_id[2].default_state = 32
    /\ last.result.blocks_by_state_id[31].id = 1
    /\ last.result.blocks_by_state_id[32].id = 2

\* "<edition>_<minecraftVersion>" of a snapshot.
KeyOfSnapshot(snapshot) ==
    <<IF snapshot.version.edition = Pc THEN "pc" ELSE "bedrock", "_">>
        \o snapshot.version.minecraft_version

\* C27: the snapshot cache changes only when a call that loaded a snapshot
\* inserts it under a key that was absent; a binding is never replaced or
\* removed; the step in which a call returns an error leaves the cache as it
\* is; and every binding holds a snapshot of the edition and the
\* minecraftVersion its key names.
C27_CacheOnlyGrowsByLoadedSnapshots ==
    [][/\ \A k \in DOMAIN dataCache.map :
            /\ k \in DOMAIN dataCache'.map
            /\ dataCache'.map[k] = dataCache.map[k]
       /\ dataCache'.map # dataCache.map =>
            \E t \in Threads :
                /\ call[t].op = "mc_data"
                /\ dataCache.writer = t
                /\ loc[t].arc.some
                /\ loc[t].arc.val.by = t
                /\ loc[t].key \notin DOMAIN dataCache.map
                /\ dataCache'.map =
                        MapInsert(dataCache.map, loc[t].key, loc[t].arc.val)
                /\ ret'[t] = Some(Ok(loc[t].arc.val))
       /\ \A t \in Threads :
            (pc[t] # "done" /\ pc'[t] = "done" /\ ~ret'[t].val.ok) =>
                dataCache'.map = dataCache.map
       /\ \A k \in DOMAIN dataCache'.map :
            k = KeyOfSnapshot(dataCache'.map[k])]_vars

\* The cache holds the snapshot one thread loaded and inserted, and the
\* mc_data call of another thread has returned an error.
C27_Witness ==
    \E t, u \in Threads :
        /\ pc[t] = "done"
        /\ call[t].op = "mc_data"
        /\ ret[t].val.ok
        /\ ret[t].val.val.by = t
        /\ DOMAIN dataCache.map = {KeyOfSnapshot(ret[t].val.val)}
        /\ dataCache.map[KeyOfSnapshot(ret[t].val.val)] = ret[t].val.val
        /\ pc[u] = "done"
        /\ call[u].op = "mc_data"
        /\ ~ret[u].val.ok

\* A thread is inside a public call.
InCall(t) == pc[t] \notin {"idle", "done"}

\* C28: every call a thread has begun returns: no state is reached in which
\* a thread waits for a once-initializer, DOWNLOAD_LOCK or a reader-writer
\* lock that is never released.
C28_EveryCallReturns == \A t \in Threads : InCall(t) ~> ~InCall(t)

\* A thread waits for the write lock of DATA_CACHE while another holds the
\* read lock.
C28_Witness ==
    \E t, u \in Threads :
        /\ pc[t] = "md_wlock"
        /\ u \in dataCache.readers
        /\ u # t

\* The string is the minecraftVersion of an entry of the edition's list.
NamesVersionOf(s, edition) ==
    \E i \in 1..Len(rawVersions[edition]) :
        rawVersions[edition][i].minecraft_version = s

\* The versions array of the record support_feature selects for thread t.
SelectedRange(t) ==
    LET records == FeatureFile(call[t].self.version.edition)
    IN  records[Last(Named(records, call[t].arg))].versions

\* Thread t has returned from support_feature on a listed feature whose two
\* endpoints are plain names of versions of the snapshot's edition, with the
\* features list of that edition loaded.
ReturnedOnPlainRange(t) ==
    /\ pc[t] = "done"
    /\ call[t].op = "support_feature"
    /\ features.val.some
    /\ features.val.val[call[t].self.version.edition].ok
    /\ Named(FeatureFile(call[t].self.version.edition), call[t].arg) # {}
    /\ \A i \in 1..2 :
            NamesVersionOf(SelectedRange(t)[i], call[t].self.version.edition)

\* Every entry of RESOLVED_VERSION_CACHE holds a Version of its key's edition.
ResolvedCacheEditions ==
    \A k \in DOMAIN resolvedCache.map : resolvedCache.map[k].edition = k[1]

\* C29: a plain endpoint that names a version of the target's edition E is
\* resolved to a Version of edition E and stored under (E, string), and the
\* range check returns Ok; every cache entry under (E, s) has edition E.
C29_PlainEndpointResolvesInTargetEdition ==
    /\ ResolvedCacheEditions
    /\ \A t \in Threads :
            ReturnedOnPlainRange(t) =>
                /\ ret[t].val.ok
                /\ \A i \in 1..2 :
                        <<call[t].self.version.edition, SelectedRange(t)[i]>>
                            \in DOMAIN resolvedCache.map

\* A Bedrock snapshot's support_feature returned the edition mismatch on a
\* range of plain Bedrock names.
C29_BedrockMismatch ==
    \E t \in Threads :
        /\ ReturnedOnPlainRange(t)
        /\ call[t].self.version.edition = Bedrock
        /\ ret[t].val = Err("Internal", "edition mismatch")

\* On PC snapshots the plain endpoints are resolved and cached.
C29_HoldsOnPc ==
    /\ ResolvedCacheEditions
    /\ \A t \in Threads :
            (ReturnedOnPlainRange(t) /\ call[t].self.version.edition = Pc) =>
                /\ ret[t].val.ok
                /\ \A i \in 1..2 :
                        <<Pc, SelectedRange(t)[i]>> \in DOMAIN resolvedCache.map

\* The values array of the record support_feature selected in the last call.
SelectedValues ==
    LET list == features.val.val[last.self.edition].val
    IN  list[Last(Named(list, last.arg))].values

\* The entries at which the examination from the last entry ends: the range
\* contains the version, or an endpoint does not resolve.
Decisive ==
    {k \in 1..Len(SelectedValues) :
        Unresolved(SelectedValues[k]) \/ InRange(SelectedValues[k])}

\* The last call was support_feature on a listed feature with a values array.
ScannedValues ==
    /\ last.op = "support_feature"
    /\ Named(features.val.val[last.self.edition].val, last.arg) # {}
    /\ SelectedValues # <<>>

\* C30: the values entries are examined from last to first up to the first
\* entry whose range contains the version or whose endpoint does not resolve:
\* the result is the value of the former or the error of the latter (not
\* false), whatever the entries before it are, and false when no entry ends
\* the examination.
C30_ScanStopsAtFirstMatchOrError ==
    ScannedValues =>
        IF Decisive = {}
        THEN last.result = Ok(BoolFalse)
        ELSE LET k == Last(Decisive)
             IN  IF Unresolved(SelectedValues[k])
                 THEN /\ ~last.result.ok
                      /\ last.result =
                            RangeCheck(loadedVersions.val, last.self, SelectedValues[k])
                 ELSE last.result = Ok(SelectedValues[k].value)

\* The last entry contains the version and its value is returned, while the
\* entry before it has an endpoint that does not resolve.
C30_Witness ==
    /\ ScannedValues
    /\ Len(SelectedValues) = 2
    /\ Unresolved(SelectedValues[1])
    /\ InRange(SelectedValues[2])
    /\ last.result = Ok(SelectedValues[2].value)

\* The last entry does not contain the version, the entry before it has an
\* endpoint that does not resolve, and the error is returned.
C30_ErrorOfExaminedEntry ==
    /\ ScannedValues
    /\ Len(SelectedValues) = 2
    /\ Unresolved(SelectedValues[1])
    /\ ~Unresolved(SelectedValues[2])
    /\ ~InRange(SelectedValues[2])
    /\ ~last.result.ok

====
